---- MODULE Spec2Model ----
(***************************************************************************)
(* A model of my_little_accountant: the PDF statement extraction pipeline  *)
(* (pdf_processor.py), the category engine (category_engine.py) and the     *)
(* data cleaner (data_cleaner.py).                                         *)
(*                                                                         *)
(* Specifications:                                                         *)
(*   SpecOne    one direct process_pdf call on one document                *)
(*   SpecBatch  one process_multiple_pdfs call: main thread + worker pool  *)
(*   SpecRegistry  add_custom_category and categorize_transaction calls    *)
(*   SpecLedger    bulk_categorize and add_custom_category on a frame      *)
(*   SpecRace      add_custom_category on one thread, categorize_         *)
(*                 transaction on another, statement by statement          *)
(*   SpecSuggest   add_custom_category and get_suggestions calls           *)
(*   SpecNormalize clean_date, clean_amount, clean_description on one cell *)
(*   SpecClean     one clean_dataframe call on a frame of raw rows         *)
(*   SpecAuto      categorize_dataframe and add_custom_category on a frame *)
(*   SpecParse     detect_bank, parse_transaction_line on a text line and  *)
(*                 extract_from_tables on the rows of a table              *)
(***************************************************************************)
EXTENDS Integers, Sequences, FiniteSets, TLC

VARIABLES
    \* ---- pdf_processor.py ----
    pdf_paths,          \* the documents handed to the call, in input order
    cpu_count,          \* mp.cpu_count()
    tasks,              \* per document: the process_pdf activation working on it
    queue,              \* executor work queue (document positions, FIFO)
    futures,            \* per document: "pending", or the result of process_single_pdf
    consumed,           \* futures already yielded by as_completed
    completed,          \* the loop counter of process_multiple_pdfs
    all_transactions,   \* list of per-document record lists, in append order
    main_pc,            \* position of the thread running process_multiple_pdfs
    ret,                \* value returned by the top-level call
    sink,               \* what the caller's progress_callback has been handed
    \* ---- category_engine.py ----
    categories,         \* self.categories: name -> keywords, color (a dict)
    keyword_to_category,\* self.keyword_to_category: lowercased keyword -> name (a dict)
    registered,         \* history: every keyword_to_category[...] = name assignment, in order
    n_adds,             \* add_custom_category calls made so far
    df,                 \* the caller's frame of records
    call,               \* the last call made on the engine and how it ended
    writer,             \* a thread inside add_custom_category
    reader,             \* a thread inside categorize_transaction
    \* ---- data_cleaner.py ----
    text,               \* the cell handed to clean_date / clean_amount / clean_description
    normalized,         \* the last normalizer call and what it returned
    fed,                \* history: the clean_date result handed back to clean_date
    strftime_pads_year, \* platform: whether strftime('%Y') pads years below 1000
    columns,            \* the columns of the frame handed to clean_dataframe /
                        \* categorize_dataframe
    cleaned,            \* how clean_dataframe ended: the frame and the issues
    \* ---- pdf_processor.py, on text ----
    page_text,          \* the text handed to detect_bank / parse_transaction_line
    grid,               \* the rows of the table handed to extract_from_tables
    parsing             \* the last detector / parser call and what it returned

pdf_vars == <<pdf_paths, cpu_count, tasks, queue, futures, consumed, completed,
              all_transactions, main_pc, ret, sink>>

engine_vars == <<categories, keyword_to_category, registered, n_adds, df, call,
                 writer, reader>>

cleaner_vars == <<text, normalized, fed, strftime_pads_year, columns, cleaned>>

parser_vars == <<page_text, grid, parsing>>

vars == <<pdf_vars, engine_vars, cleaner_vars, parser_vars>>

\* Python's None for an optional value: the empty tuple; a present value v of
\* an Optional is <<v>>, and a DataFrame is the sequence of its rows (so the
\* None and the empty DataFrame of process_single_pdf coincide).
None == <<>>

\* ------------------------------------------------------------------ bounds
MaxDocs == 3        \* documents in one batch
MaxCpu == 2         \* largest mp.cpu_count() tried
MaxLines == 2       \* text lines of one document
MaxTableRows == 1   \* table rows of one document
MaxAdds == 2        \* add_custom_category calls in one run
MaxRows == 2        \* records of the caller's frame

\* ------------------------------------------------------------- arithmetic
Min(a, b) == IF a <= b THEN a ELSE b
Max(a, b) == IF a >= b THEN a ELSE b

\* A percent value is a rational <<numerator, denominator>>: the code computes
\* 60 + (i / total_lines) * 20 and (completed / len(pdf_paths)) * 100.
Pct(n) == <<n, 1>>
PctLeq(p, q) == p[1] * q[2] <= q[1] * p[2]
PctEq(p, q) == p[1] * q[2] = q[1] * p[2]
PctMax(p, q) == IF PctLeq(p, q) THEN q ELSE p

\* ------------------------------------------------------------------ sink
\* The progress sink keeps, of the sequence of events delivered so far: the
\* percent of the first and of the last event, the largest percent seen, the
\* milestone of the last event and the set of milestones delivered.
EmptySink == [first |-> None, last |-> None, max |-> None, kind |-> "", seen |-> {}]

Delivered(s, pct, kind) ==
    [first |-> IF s.first = None THEN pct ELSE s.first,
     last  |-> pct,
     max   |-> IF s.max = None THEN pct ELSE PctMax(s.max, pct),
     kind  |-> kind,
     seen  |-> s.seen \cup {kind}]

\* progress_callback(message, progress, details)
progress_callback(pct, kind) == sink' = Delivered(sink, pct, kind)

\* ===================================================== category_engine.py
\* ------------------------------------------------------------ Python str
UpperToLower ==
    [A |-> "a", B |-> "b", C |-> "c", D |-> "d", E |-> "e", F |-> "f", G |-> "g",
     H |-> "h", I |-> "i", J |-> "j", K |-> "k", L |-> "l", M |-> "m", N |-> "n",
     O |-> "o", P |-> "p", Q |-> "q", R |-> "r", S |-> "s", T |-> "t", U |-> "u",
     V |-> "v", W |-> "w", X |-> "x", Y |-> "y", Z |-> "z"]

LowerChar(c) == IF c \in DOMAIN UpperToLower THEN UpperToLower[c] ELSE c

\* str.lower()
RECURSIVE lower(_)
lower(s) ==
    IF Len(s) = 0 THEN ""
    ELSE LowerChar(SubSeq(s, 1, 1)) \o lower(SubSeq(s, 2, Len(s)))

\* sub in s
Contains(sub, s) ==
    \/ Len(sub) = 0
    \/ \E i \in 1..(Len(s) - Len(sub) + 1) : SubSeq(s, i, i + Len(sub) - 1) = sub

Whitespace == {" ", "\t", "\n"}

\* str.split(): the maximal runs of non-whitespace characters, in order
RECURSIVE SplitFrom(_, _, _)
SplitFrom(s, i, word) ==
    IF i > Len(s) THEN (IF Len(word) = 0 THEN <<>> ELSE <<word>>)
    ELSE IF SubSeq(s, i, i) \in Whitespace
         THEN (IF Len(word) = 0 THEN <<>> ELSE <<word>>) \o SplitFrom(s, i + 1, "")
         ELSE SplitFrom(s, i + 1, word \o SubSeq(s, i, i))

split(s) == SplitFrom(s, 1, "")

\* ----------------------------------------------------------- Python dict
\* A dict keeps its keys in insertion order; assigning to a key it already
\* holds replaces the value and leaves the key where it is.
EmptyDict == [keys |-> <<>>, val |-> [k \in {} |-> k]]

HasKey(d, k) == k \in DOMAIN d.val

\* the assignment that leaves a key the dict already holds as it is
DictSetKeepFirst(d, k, v) ==
    IF HasKey(d, k) THEN d
    ELSE [keys |-> Append(d.keys, k), val |-> (k :> v) @@ d.val]

DictSetMoveToEnd(d, k, v) ==
    [keys |-> Append(SelectSeq(d.keys, LAMBDA x : x # k), k),
     val |-> IF HasKey(d, k) THEN [d.val EXCEPT ![k] = v] ELSE (k :> v) @@ d.val]

DictSet(d, k, v) ==
    IF HasKey(d, k)
    THEN [keys |-> d.keys, val |-> [d.val EXCEPT ![k] = v]]
    ELSE [keys |-> Append(d.keys, k),
          val |-> (k :> v) @@ d.val]

\* ----------------------------------------------------- built-in categories
BuiltinNames ==
    <<"Income", "Food & Dining", "Housing", "Utilities", "Transportation",
      "Entertainment", "Healthcare", "Shopping", "Education", "Travel",
      "Other">>

IncomeKeywords ==
    <<"salary", "paycheck", "pay roll", "deposit", "transfer in",
      "direct deposit", "refund", "cashback", "reward", "bonus", "interest",
      "dividend", "pension", "social security">>

FoodDiningKeywords ==
    <<"grocery", "restaurant", "starbucks", "mcdonalds", "subway", "pizza",
      "food", "dining", "coffee", "lunch", "dinner", "breakfast", "cafe",
      "bakery", "delivery", "takeout", "whole foods", "trader joe", "walmart",
      "target", "costco">>

HousingKeywords ==
    <<"rent", "mortgage", "housing", "apartment", "home", "property tax",
      "homeowner", "hoa", "maintenance">>

UtilitiesKeywords ==
    <<"electric", "electricity", "water", "internet", "phone", "cable",
      "gas bill", "utility", "sewer", "trash", "verizon", "at&t", "comcast",
      "spectrum">>

TransportationKeywords ==
    <<"gas", "gasoline", "fuel", "uber", "lyft", "taxi", "parking", "transit",
      "bus", "train", "metro", "car payment", "auto loan", "insurance", "dmv",
      "maintenance", "repair", "toll">>

EntertainmentKeywords ==
    <<"netflix", "movie", "concert", "amazon", "streaming", "spotify", "hulu",
      "disney", "youtube", "gaming", "theater", "show", "ticket",
      "entertainment">>

HealthcareKeywords ==
    <<"doctor", "hospital", "pharmacy", "medical", "health", "dentist",
      "vision", "prescription", "clinic", "cvs", "walgreens", "insurance",
      "copay">>

ShoppingKeywords ==
    <<"amazon", "target", "walmart", "costco", "best buy", "shopping",
      "store", "retail", "clothing", "shoes", "electronics", "home depot",
      "lowes">>

EducationKeywords ==
    <<"school", "tuition", "education", "book", "university", "college",
      "student", "course", "training">>

TravelKeywords ==
    <<"hotel", "flight", "airline", "travel", "vacation", "booking",
      "expedia", "airbnb", "rental car">>

OtherKeywords ==
    <<>>

BuiltinCategories ==
    ("Income" :> [keywords |-> IncomeKeywords, color |-> "#28a745"]) @@
    ("Food & Dining" :> [keywords |-> FoodDiningKeywords, color |-> "#ffc107"]) @@
    ("Housing" :> [keywords |-> HousingKeywords, color |-> "#6f42c1"]) @@
    ("Utilities" :> [keywords |-> UtilitiesKeywords, color |-> "#17a2b8"]) @@
    ("Transportation" :> [keywords |-> TransportationKeywords, color |-> "#fd7e14"]) @@
    ("Entertainment" :> [keywords |-> EntertainmentKeywords, color |-> "#e83e8c"]) @@
    ("Healthcare" :> [keywords |-> HealthcareKeywords, color |-> "#dc3545"]) @@
    ("Shopping" :> [keywords |-> ShoppingKeywords, color |-> "#6c757d"]) @@
    ("Education" :> [keywords |-> EducationKeywords, color |-> "#20c997"]) @@
    ("Travel" :> [keywords |-> TravelKeywords, color |-> "#6610f2"]) @@
    ("Other" :> [keywords |-> OtherKeywords, color |-> "#6c757d"])

DefaultColor == "#6c757d"

\* for keyword in keywords: self.keyword_to_category[keyword.lower()] = name
\* (from the j-th keyword on; each assignment is carried out before the loop
\* goes on to the next keyword, and leaves the key in the dict)
RECURSIVE register_keywords(_, _, _, _)
register_keywords(lookup, keywords, j, name) ==
    IF j > Len(keywords) THEN lookup
    ELSE LET assigned == DictSet(lookup, lower(keywords[j]), name)
         IN IF HasKey(assigned, lower(keywords[j]))
            THEN register_keywords(assigned, keywords, j + 1, name)
            ELSE assigned

\* the same loop as a history: one <<keyword, category>> entry per assignment
registrations(keywords, name) ==
    [j \in 1..Len(keywords) |-> [keyword |-> lower(keywords[j]), category |-> name]]

\* __init__: for category, data in self.categories.items(): ...
\* (from the i-th category on)
RECURSIVE build_lookup(_, _, _)
build_lookup(lookup, cats, i) ==
    IF i > Len(cats.keys) THEN lookup
    ELSE build_lookup(
            register_keywords(lookup, cats.val[cats.keys[i]].keywords, 1, cats.keys[i]),
            cats, i + 1)

RECURSIVE build_registrations(_, _)
build_registrations(cats, i) ==
    IF i > Len(cats.keys) THEN <<>>
    ELSE registrations(cats.val[cats.keys[i]].keywords, cats.keys[i])
         \o build_registrations(cats, i + 1)

InitialCategories == [keys |-> BuiltinNames, val |-> BuiltinCategories]
InitialLookup == build_lookup(EmptyDict, InitialCategories, 1)
InitialRegistrations == build_registrations(InitialCategories, 1)

\* ------------------------------------------------- categorize_transaction
\* for keyword, category in self.keyword_to_category.items():
\*     if keyword in desc_lower: return category
\* the position of the first key that is a substring, 0 when there is none
first_match_whole(lookup, desc_lower) ==
    LET hits == {i \in 1..Len(lookup.keys) : lookup.keys[i] = desc_lower}
    IN IF hits = {} THEN 0 ELSE CHOOSE i \in hits : \A j \in hits : i <= j

first_match(lookup, desc_lower) ==
    LET hits == {i \in 1..Len(lookup.keys) : Contains(lookup.keys[i], desc_lower)}
    IN IF hits = {} THEN 0 ELSE CHOOSE i \in hits : \A j \in hits : i <= j

\* for word in words: if word in self.keyword_to_category: return ...
first_word(lookup, words) ==
    LET hits == {i \in 1..Len(words) : HasKey(lookup, words[i])}
    IN IF hits = {} THEN 0 ELSE CHOOSE i \in hits : \A j \in hits : i <= j

Abs(n) == IF n < 0 THEN -n ELSE n

\* if amount is not None: amount > 1000 -> Income; abs(amount) < 5 -> Other
by_amount(amount) ==
    IF amount = None THEN "Other"
    ELSE IF amount[1] > 1000 THEN "Income"
    ELSE IF Abs(amount[1]) < 5 THEN "Other"
    ELSE "Other"

categorize(lookup, description, amount) ==
    IF Len(description) = 0 THEN "Other"
    ELSE LET desc_lower == lower(description)
             k == first_match(lookup, desc_lower)
             words == split(desc_lower)
             w == first_word(lookup, words)
         IN IF k # 0 THEN lookup.val[lookup.keys[k]]
            ELSE IF w # 0 THEN lookup.val[words[w]]
            ELSE by_amount(amount)


IdleThread == [pc |-> "idle"]

\* the record of the last call made on the engine
NoCall ==
    [op |-> "", description |-> "", amount |-> None, name |-> "", keywords |-> <<>>,
     color |-> "", category |-> "", indices |-> {}, result |-> "", suggestions |-> <<>>]

\* ======================================================== data_cleaner.py
\* no normalizer call made yet
NotNormalized == [fn |-> "", date |-> None, amount |-> None, description |-> ""]

\* issues = {'invalid_dates': [], 'invalid_amounts': [], 'empty_descriptions': [],
\*           'duplicates': []}; the key removed_rows is absent (None here)
NoIssues ==
    [invalid_dates |-> <<>>, invalid_amounts |-> <<>>, empty_descriptions |-> <<>>,
     duplicates |-> <<>>, removed_rows |-> None]

\* clean_dataframe not called yet
NotCleaned == [status |-> "", frame |-> <<>>, issues |-> NoIssues]

IdleCleaner ==
    /\ text = None
    /\ normalized = NotNormalized
    /\ fed = None
    /\ strftime_pads_year = TRUE
    /\ columns = {}
    /\ cleaned = NotCleaned

\* no detector or parser call made yet
NotParsed == [fn |-> "", bank_type |-> "", transaction |-> None, transactions |-> <<>>]

IdleParser ==
    /\ page_text = ""
    /\ grid = <<>>
    /\ parsing = NotParsed

\* -------------------------------------------------------------- documents
\* A document: whether pdfplumber yields any page text, its text lines, and
\* the rows of its tables.  A line is "short" (10 characters or fewer after
\* strip), "junk" (long enough, no transaction) or "txn" (parses to a
\* transaction); a table row is "row_txn" or "row_junk".
LineKinds == {"short", "junk", "txn"}
RowKinds == {"row_txn", "row_junk"}

SeqsUpTo(S, lo, hi) == UNION {[1..n -> S] : n \in lo..hi}

Documents ==
    [id : {0}, text_ok : BOOLEAN,
     lines : SeqsUpTo(LineKinds, 1, MaxLines),
     rows : SeqsUpTo(RowKinds, 0, MaxTableRows)]

\* The documents of a batch: one per way a document can end.
BatchKinds == {"no_text", "blank", "lines", "tables"}
BatchDoc(i, k) ==
    [id |-> i,
     text_ok |-> k # "no_text",
     lines |-> IF k = "lines" THEN <<"txn">> ELSE IF k = "blank" THEN <<"junk">> ELSE <<"short">>,
     rows |-> IF k \in {"tables", "no_text"} THEN <<"row_txn">> ELSE <<>>]

\* extract_text_from_pdf: "" when nothing can be read, else the page text
extract_text_from_pdf(doc) == IF doc.text_ok THEN doc.lines ELSE <<>>

\* [line.strip() for line in lines if line.strip() and len(line.strip()) > 10]
RECURSIVE cleaned_lines(_, _)
cleaned_lines(doc, j) ==
    IF j > Len(doc.lines) THEN <<>>
    ELSE (IF doc.lines[j] = "short" THEN <<>> ELSE <<[kind |-> doc.lines[j], pos |-> j]>>)
         \o cleaned_lines(doc, j + 1)

\* parse_transaction_line on a cleaned line: a record or None
parse_transaction_line(doc, line) ==
    IF line.kind = "txn" THEN <<[doc |-> doc.id, src |-> "line", pos |-> line.pos]>> ELSE None

\* extract_from_tables: the records of the rows that parse, in row order
RECURSIVE extract_from_tables(_, _)
extract_from_tables(doc, j) ==
    IF j > Len(doc.rows) THEN <<>>
    ELSE (IF doc.rows[j] = "row_txn"
          THEN <<[doc |-> doc.id, src |-> "table", pos |-> j]>> ELSE <<>>)
         \o extract_from_tables(doc, j + 1)

\* ------------------------------------------------------------ process_pdf
\* pc: idle, start, read, detect, clean, parse, finish, ended (outcome says
\* how: "returned" or "raised"), exited (the caller has taken the outcome)
IdleTask == [pc |-> "idle", cleaned |-> <<>>, i |-> 0, transactions |-> <<>>,
             outcome |-> ""]

Docs == 1..Len(pdf_paths)

SetTask(t, r) == tasks' = [tasks EXCEPT ![t] = r]

\* progress_callback("Reading PDF file...", 0, ...)
pdf_start(t) ==
    /\ tasks[t].pc = "start"
    /\ progress_callback(Pct(0), "start")
    /\ SetTask(t, [tasks[t] EXCEPT !.pc = "read"])

\* an empty text taken for text: the call goes on to the bank detection
pdf_read_fail_continue(t) ==
    /\ tasks[t].pc = "read"
    /\ extract_text_from_pdf(pdf_paths[t]) = <<>>
    /\ progress_callback(Pct(20), "text_read")
    /\ SetTask(t, [tasks[t] EXCEPT !.pc = "detect"])

\* text = extract_text_from_pdf(...); if not text: raise ValueError, which the
\* handler of process_pdf re-raises as Exception
pdf_read_fail(t) ==
    /\ tasks[t].pc = "read"
    /\ extract_text_from_pdf(pdf_paths[t]) = <<>>
    /\ SetTask(t, [tasks[t] EXCEPT !.pc = "ended", !.outcome = "raised"])
    /\ UNCHANGED sink

pdf_read_ok(t) ==
    /\ tasks[t].pc = "read"
    /\ extract_text_from_pdf(pdf_paths[t]) # <<>>
    /\ progress_callback(Pct(20), "text_read")
    /\ SetTask(t, [tasks[t] EXCEPT !.pc = "detect"])

\* bank_type = detect_bank(text); progress 40
pdf_detect(t) ==
    /\ tasks[t].pc = "detect"
    /\ progress_callback(Pct(40), "format")
    /\ SetTask(t, [tasks[t] EXCEPT !.pc = "clean"])

\* cleaned_lines = [...]; progress 60
pdf_clean(t) ==
    /\ tasks[t].pc = "clean"
    /\ progress_callback(Pct(60), "parsing")
    /\ SetTask(t, [tasks[t] EXCEPT !.pc = "parse", !.i = 0,
                                   !.cleaned = cleaned_lines(pdf_paths[t], 1)])

\* progress = 60 + (i / total_lines) * 20
line_progress_no_offset(i, total_lines) == <<20 * i, total_lines>>
line_progress(i, total_lines) == <<60 * total_lines + 20 * i, total_lines>>

\* one iteration of: for i, line in enumerate(cleaned_lines)
pdf_parse_line(t) ==
    LET tk == tasks[t]
        total_lines == Len(tk.cleaned)
        transaction == parse_transaction_line(pdf_paths[t], tk.cleaned[tk.i + 1])
        found == IF transaction = None THEN tk.transactions
                 ELSE Append(tk.transactions, transaction[1])
    IN /\ tk.pc = "parse"
       /\ tk.i < total_lines
       /\ IF tk.i % Max(1, total_lines \div 10) = 0
          THEN progress_callback(line_progress(tk.i, total_lines), "line")
          ELSE UNCHANGED sink
       /\ SetTask(t, [tk EXCEPT !.i = tk.i + 1, !.transactions = found])

\* loop over; if not transactions: progress 80 and the table fallback
pdf_tables(t) ==
    LET tk == tasks[t] IN
    /\ tk.pc = "parse"
    /\ tk.i = Len(tk.cleaned)
    /\ tk.transactions = <<>>
    /\ progress_callback(Pct(80), "table")
    /\ SetTask(t, [tk EXCEPT !.pc = "finish",
                             !.transactions = extract_from_tables(pdf_paths[t], 1)])

\* the table extraction run whatever the lines gave
pdf_no_tables_fallback(t) ==
    LET tk == tasks[t] IN
    /\ tk.pc = "parse"
    /\ tk.i = Len(tk.cleaned)
    /\ tk.transactions # <<>>
    /\ progress_callback(Pct(80), "table")
    /\ SetTask(t, [tk EXCEPT !.pc = "finish",
                             !.transactions = extract_from_tables(pdf_paths[t], 1)])

\* loop over with transactions found: no table extraction
pdf_no_tables(t) ==
    LET tk == tasks[t] IN
    /\ tk.pc = "parse"
    /\ tk.i = Len(tk.cleaned)
    /\ tk.transactions # <<>>
    /\ SetTask(t, [tk EXCEPT !.pc = "finish"])
    /\ UNCHANGED sink

\* progress 100, then the DataFrame of the transactions is returned
pdf_finish(t) ==
    /\ tasks[t].pc = "finish"
    /\ progress_callback(Pct(100), "done")
    /\ SetTask(t, [tasks[t] EXCEPT !.pc = "ended", !.outcome = "returned"])

process_pdf(t) ==
    \/ pdf_start(t)
    \/ pdf_read_fail(t)
    \/ pdf_read_ok(t)
    \/ pdf_detect(t)
    \/ pdf_clean(t)
    \/ pdf_parse_line(t)
    \/ pdf_tables(t)
    \/ pdf_no_tables(t)
    \/ pdf_finish(t)

pdf_frame == UNCHANGED <<engine_vars, cleaner_vars, parser_vars, pdf_paths, cpu_count, queue, futures, consumed, completed,
                         all_transactions, main_pc, ret>>

\* how a top-level call ended
NoRet == [status |-> "running", value |-> <<>>]
Returned(v) == [status |-> "returned", value |-> v]
Raised == [status |-> "raised", value |-> <<>>]

\* a future of the executor
Pending == [state |-> "pending", result |-> <<>>]
Resolved(v) == [state |-> "done", result |-> v]

\* ------------------------------------------------- process_pdf called directly
\* process_pdf_file(pdf_path, progress_callback): the call hands back the
\* DataFrame, or raises Exception("Failed to process PDF: ...")
direct_return ==
    /\ main_pc = "direct"
    /\ tasks[1].pc = "ended"
    /\ SetTask(1, [tasks[1] EXCEPT !.pc = "exited"])
    /\ ret' = IF tasks[1].outcome = "raised" THEN Raised ELSE Returned(tasks[1].transactions)
    /\ main_pc' = IF tasks[1].outcome = "raised" THEN "raised" ELSE "done"
    /\ UNCHANGED <<engine_vars, cleaner_vars, parser_vars, pdf_paths, cpu_count, queue, futures, consumed, completed,
                   all_transactions, sink>>

\* the extraction pipeline holds no category engine
IdleEngine ==
    /\ categories = EmptyDict
    /\ keyword_to_category = EmptyDict
    /\ registered = <<>>
    /\ n_adds = 0
    /\ df = <<>>
    /\ call = NoCall
    /\ writer = IdleThread
    /\ reader = IdleThread

InitOne ==
    /\ pdf_paths \in {<<d>> : d \in Documents}
    /\ cpu_count = 1
    /\ tasks = <<[IdleTask EXCEPT !.pc = "start"]>>
    /\ queue = <<>>
    /\ futures = <<Pending>>
    /\ consumed = {}
    /\ completed = 0
    /\ all_transactions = <<>>
    /\ main_pc = "direct"
    /\ ret = NoRet
    /\ sink = EmptySink
    /\ IdleEngine
    /\ IdleCleaner
    /\ IdleParser

NextOne ==
    \/ \E t \in Docs : main_pc = "direct" /\ process_pdf(t) /\ pdf_frame
    \/ direct_return

SpecOne == InitOne /\ [][NextOne]_vars

\* ------------------------------------------------------ process_multiple_pdfs
\* max_workers = min(len(pdf_paths), mp.cpu_count())
max_workers_unbounded == Len(pdf_paths)
max_workers == Min(Len(pdf_paths), cpu_count)

\* the tasks a thread is working on
Running == {t \in Docs : tasks[t].pc \notin {"idle", "exited"}}

\* what process_single_pdf hands back: df if not df.empty else None; None
\* when process_pdf raised
process_single_pdf(t) ==
    IF tasks[t].outcome = "raised" \/ tasks[t].transactions = <<>>
    THEN None ELSE tasks[t].transactions

RECURSIVE concat(_)
concat(dfs) == IF dfs = <<>> THEN <<>> ELSE Head(dfs) \o concat(Tail(dfs))

\* if len(pdf_paths) > 1: progress 0 "Starting parallel PDF processing..."
mp_begin_parallel ==
    /\ main_pc = "begin"
    /\ Len(pdf_paths) > 1
    /\ progress_callback(Pct(0), "batch_start")
    /\ main_pc' = "submit"
    /\ UNCHANGED <<engine_vars, cleaner_vars, parser_vars, pdf_paths, cpu_count, tasks, queue, futures, consumed, completed,
                   all_transactions, ret>>

\* future_to_pdf = {executor.submit(process_single_pdf, p): p for p in pdf_paths}
mp_submit ==
    /\ main_pc = "submit"
    /\ queue' = [i \in Docs |-> i]
    /\ main_pc' = "collect"
    /\ UNCHANGED <<engine_vars, cleaner_vars, parser_vars, pdf_paths, cpu_count, tasks, futures, consumed, completed,
                   all_transactions, ret, sink>>

\* a pool thread takes the next work item; the pool has max_workers threads
worker_take ==
    /\ queue # <<>>
    /\ Cardinality(Running) < max_workers
    /\ SetTask(Head(queue), [tasks[Head(queue)] EXCEPT !.pc = "start"])
    /\ queue' = Tail(queue)
    /\ UNCHANGED <<engine_vars, cleaner_vars, parser_vars, pdf_paths, cpu_count, futures, consumed, completed,
                   all_transactions, main_pc, ret, sink>>

\* process_single_pdf returns (its handler turns an exception into None) and
\* the future is resolved
worker_done(t) ==
    /\ main_pc = "collect"
    /\ tasks[t].pc = "ended"
    /\ futures' = [futures EXCEPT ![t] = Resolved(process_single_pdf(t))]
    /\ SetTask(t, [tasks[t] EXCEPT !.pc = "exited"])
    /\ UNCHANGED <<engine_vars, cleaner_vars, parser_vars, pdf_paths, cpu_count, queue, consumed, completed,
                   all_transactions, main_pc, ret, sink>>

append_result(all, frame) == IF frame = None THEN all ELSE Append(all, frame)

\* one iteration of: for future in as_completed(future_to_pdf)
mp_collect(t) ==
    /\ main_pc = "collect"
    /\ t \notin consumed
    /\ tasks[t].pc = "exited"
    /\ consumed' = consumed \cup {t}
    /\ completed' = completed + 1
    /\ all_transactions' = append_result(all_transactions, futures[t].result)
    /\ progress_callback(<<(completed + 1) * 100, Len(pdf_paths)>>, "completed")
    /\ UNCHANGED <<engine_vars, cleaner_vars, parser_vars, pdf_paths, cpu_count, tasks, queue, futures, main_pc, ret>>

\* as_completed is exhausted and the executor is shut down
mp_loop_end_on_failure ==
    /\ main_pc = "collect"
    /\ \/ consumed = Docs
       \/ \E t \in consumed : futures[t].result = None
    /\ main_pc' = "after_loop"
    /\ UNCHANGED <<engine_vars, cleaner_vars, parser_vars, pdf_paths, cpu_count, tasks, queue, futures, consumed, completed,
                   all_transactions, ret, sink>>

mp_loop_end ==
    /\ main_pc = "collect"
    /\ consumed = Docs
    /\ main_pc' = "after_loop"
    /\ UNCHANGED <<engine_vars, cleaner_vars, parser_vars, pdf_paths, cpu_count, tasks, queue, futures, consumed, completed,
                   all_transactions, ret, sink>>

\* else branch (len(pdf_paths) <= 1): for i, pdf_path in enumerate(pdf_paths):
\* progress 0 "Processing PDF i+1 of n", then process_pdf on this thread
mp_single_start ==
    /\ main_pc = "begin"
    /\ Len(pdf_paths) = 1
    /\ progress_callback(Pct(0), "pdf_start")
    /\ SetTask(1, [tasks[1] EXCEPT !.pc = "start"])
    /\ main_pc' = "single"
    /\ UNCHANGED <<engine_vars, cleaner_vars, parser_vars, pdf_paths, cpu_count, queue, futures, consumed, completed,
                   all_transactions, ret>>

\* if not df.empty: all_transactions.append(df); except Exception: continue
mp_single_end ==
    /\ main_pc = "single"
    /\ tasks[1].pc = "ended"
    /\ all_transactions' = append_result(all_transactions, process_single_pdf(1))
    /\ SetTask(1, [tasks[1] EXCEPT !.pc = "exited"])
    /\ main_pc' = "after_loop"
    /\ UNCHANGED <<engine_vars, cleaner_vars, parser_vars, pdf_paths, cpu_count, queue, futures, consumed, completed, ret, sink>>

\* the else branch with no document at all
mp_single_none ==
    /\ main_pc = "begin"
    /\ Len(pdf_paths) = 0
    /\ main_pc' = "after_loop"
    /\ UNCHANGED <<engine_vars, cleaner_vars, parser_vars, pdf_paths, cpu_count, tasks, queue, futures, consumed, completed,
                   all_transactions, ret, sink>>

\* if all_transactions: progress 90 "Combining ..."
mp_combining ==
    /\ main_pc = "after_loop"
    /\ all_transactions # <<>>
    /\ progress_callback(Pct(90), "combining")
    /\ main_pc' = "concat"
    /\ UNCHANGED <<engine_vars, cleaner_vars, parser_vars, pdf_paths, cpu_count, tasks, queue, futures, consumed, completed,
                   all_transactions, ret>>

\* combined_df = pd.concat(all_transactions); progress 100; return combined_df
mp_complete ==
    /\ main_pc = "concat"
    /\ ret' = Returned(concat(all_transactions))
    /\ progress_callback(Pct(100), "complete")
    /\ main_pc' = "done"
    /\ UNCHANGED <<engine_vars, cleaner_vars, parser_vars, pdf_paths, cpu_count, tasks, queue, futures, consumed, completed,
                   all_transactions>>

\* else: progress 100 "No transactions found"; return the empty DataFrame
mp_none_found ==
    /\ main_pc = "after_loop"
    /\ all_transactions = <<>>
    /\ ret' = Returned(<<>>)
    /\ progress_callback(Pct(100), "none_found")
    /\ main_pc' = "done"
    /\ UNCHANGED <<engine_vars, cleaner_vars, parser_vars, pdf_paths, cpu_count, tasks, queue, futures, consumed, completed,
                   all_transactions>>

InitBatch ==
    /\ \E n \in 0..MaxDocs : \E kinds \in [1..n -> BatchKinds] :
          /\ pdf_paths = [i \in 1..n |-> BatchDoc(i, kinds[i])]
          /\ tasks = [i \in 1..n |-> IdleTask]
          /\ futures = [i \in 1..n |-> Pending]
    /\ cpu_count \in 1..MaxCpu
    /\ queue = <<>>
    /\ consumed = {}
    /\ completed = 0
    /\ all_transactions = <<>>
    /\ main_pc = "begin"
    /\ ret = NoRet
    /\ sink = EmptySink
    /\ IdleEngine
    /\ IdleCleaner
    /\ IdleParser

NextBatch ==
    \/ mp_begin_parallel
    \/ mp_submit
    \/ worker_take
    \/ \E t \in Docs : main_pc \in {"collect", "single"} /\ process_pdf(t) /\ pdf_frame
    \/ \E t \in Docs : worker_done(t)
    \/ \E t \in Docs : mp_collect(t)
    \/ mp_loop_end
    \/ mp_single_start
    \/ mp_single_end
    \/ mp_single_none
    \/ mp_combining
    \/ mp_complete
    \/ mp_none_found

SpecBatch == InitBatch /\ [][NextBatch]_vars

\* ================================================ category_engine.py: operations
ledger_frame == UNCHANGED <<df>>
registry_frame == UNCHANGED <<categories, keyword_to_category, registered, n_adds>>
race_frame == UNCHANGED <<writer, reader>>

categorize_transaction(description, amount) ==
    /\ call' = [NoCall EXCEPT !.op = "categorize_transaction",
                              !.description = description, !.amount = amount,
                              !.result = categorize(keyword_to_category, description, amount)]
    /\ registry_frame /\ ledger_frame /\ race_frame /\ UNCHANGED <<pdf_vars, cleaner_vars, parser_vars>>

\* ---------------------------------------------------- add_custom_category
add_custom_category(name, keywords, color) ==
    /\ n_adds < MaxAdds
    /\ n_adds' = n_adds + 1
    /\ categories' = DictSet(categories, name, [keywords |-> keywords, color |-> color])
    /\ keyword_to_category' = register_keywords(keyword_to_category, keywords, 1, name)
    /\ registered' = registered \o registrations(keywords, name)
    /\ call' = [NoCall EXCEPT !.op = "add_custom_category", !.name = name,
                              !.keywords = keywords, !.color = color]
    /\ ledger_frame /\ race_frame /\ UNCHANGED <<pdf_vars, cleaner_vars, parser_vars>>

\* -------------------------------------------------------- bulk_categorize
\* df.loc[indices, 'Category'] = category, on a frame with the default index
\* 0..n-1 (row j of the model is label j-1)
assign_category_all(frame, category, indices) ==
    [j \in 1..Len(frame) |-> [frame[j] EXCEPT !.Category = category]]

assign_category(frame, category, indices) ==
    [j \in 1..Len(frame) |->
        IF (j - 1) \in indices THEN [frame[j] EXCEPT !.Category = category] ELSE frame[j]]

bulk_categorize_unchecked(category, indices) ==
    /\ df' = assign_category(df, category, indices)
    /\ call' = [NoCall EXCEPT !.op = "bulk_categorize", !.category = category,
                              !.indices = indices,
                              !.result = IF HasKey(categories, category)
                                         THEN "returned" ELSE "ValueError"]
    /\ registry_frame /\ race_frame /\ UNCHANGED <<pdf_vars, cleaner_vars, parser_vars>>

bulk_categorize(category, indices) ==
    /\ IF ~HasKey(categories, category)
       THEN /\ df' = df
            /\ call' = [NoCall EXCEPT !.op = "bulk_categorize", !.category = category,
                                      !.indices = indices, !.result = "ValueError"]
       ELSE /\ df' = assign_category(df, category, indices)
            /\ call' = [NoCall EXCEPT !.op = "bulk_categorize", !.category = category,
                                      !.indices = indices, !.result = "returned"]
    /\ registry_frame /\ race_frame /\ UNCHANGED <<pdf_vars, cleaner_vars, parser_vars>>

\* --------------------------------------------------- categorize_dataframe
\* A frame handed to categorize_dataframe holds its Category cells as None
\* (NaN, or no Category column) or <<label>>.
\* every row taken for uncategorized
mask_all(category) == TRUE

\* (df['Category'].isna()) | (df['Category'] == '') | (df['Category'] == 'Other')
uncategorized_mask(category) == category = None \/ category \in {<<"">>, <<"Other">>}

\* if 'Category' not in df.columns: df['Category'] = ''
with_category_column(frame, cols) ==
    IF "Category" \in cols THEN frame
    ELSE [j \in 1..Len(frame) |-> [frame[j] EXCEPT !.Category = <<"">>]]

\* for idx in df[uncategorized_mask].index: df.loc[idx, 'Category'] =
\* self.categorize_transaction(description, amount), on a frame whose labels
\* are all different
categorize_rows(lookup, frame, cols) ==
    LET rows == with_category_column(frame, cols)
    IN [j \in 1..Len(rows) |->
           IF uncategorized_mask(rows[j].Category)
           THEN [rows[j] EXCEPT !.Category =
                     <<categorize(lookup, rows[j].Description,
                                  IF "Amount" \in cols THEN <<rows[j].Amount>> ELSE None)>>]
           ELSE rows[j]]

\* categorize_dataframe(df): the caller's frame is written in place
categorize_dataframe ==
    /\ df' = categorize_rows(keyword_to_category, df, columns)
    /\ columns' = columns \cup {"Category"}
    /\ call' = [NoCall EXCEPT !.op = "categorize_dataframe", !.result = "returned"]
    /\ registry_frame /\ race_frame
    /\ UNCHANGED <<text, normalized, fed, strftime_pads_year, cleaned, pdf_vars, parser_vars>>

\* ------------------------------------------------------------------ inputs
\* add_custom_category calls tried: a new category, the fallback category, a
\* built-in name, keywords in upper case that built-ins already hold, no
\* keyword at all, and the empty keyword
AddCalls ==
    {<<"Pets", <<"vet", "pet food">>, "#8b4513">>,
     <<"Other", <<"fee">>, DefaultColor>>,
     <<"Income", <<"wages">>, "#28a745">>,
     <<"Online", <<"Amazon", "netflix">>, "#000000">>,
     <<"Fees", <<>>, DefaultColor>>,
     <<"Misc", <<"">>, DefaultColor>>}

Descriptions ==
    {"", "Amazon Prime", "target netflix", "pet food store", "GAS BILL payment",
     "wages", "xyz", "VET visit", "late fee", "rental car hotel"}

Amounts == {None, <<2000>>, <<3>>, <<-50>>}

\* categorize_transaction calls tried: every description without an amount,
\* and the descriptions that hold no built-in keyword with every amount
CategorizeCalls ==
    {<<d, None>> : d \in Descriptions}
    \cup {<<d, a>> : d \in {"", "xyz", "wages"}, a \in Amounts}

\* the categories a caller may ask bulk_categorize for
BulkLabels == {"Income", "Other", "Pets", "Unknown", "income"}

LedgerRows ==
    [Date : {"2024-01-15"}, Description : {"Starbucks coffee"},
     Amount : {-5}, Category : {"", "Shopping"}]

LedgerAddCalls == {c \in AddCalls : c[1] \in {"Pets", "Income"}}

IdlePdf ==
    /\ pdf_paths = <<>>
    /\ cpu_count = 1
    /\ tasks = <<>>
    /\ queue = <<>>
    /\ futures = <<>>
    /\ consumed = {}
    /\ completed = 0
    /\ all_transactions = <<>>
    /\ main_pc = "idle"
    /\ ret = NoRet
    /\ sink = EmptySink

InitEngine ==
    /\ categories = InitialCategories
    /\ keyword_to_category = InitialLookup
    /\ registered = InitialRegistrations
    /\ n_adds = 0
    /\ call = NoCall

\* ---- the registry: registration and classification, one call at a time
InitRegistry ==
    /\ InitEngine
    /\ df = <<>>
    /\ writer = IdleThread
    /\ reader = IdleThread
    /\ IdlePdf
    /\ IdleCleaner
    /\ IdleParser

NextRegistry ==
    \/ \E c \in AddCalls : add_custom_category(c[1], c[2], c[3])
    \/ \E c \in CategorizeCalls : categorize_transaction(c[1], c[2])

SpecRegistry == InitRegistry /\ [][NextRegistry]_vars

\* ---- the ledger: bulk assignment on a caller's frame
InitLedger ==
    /\ InitEngine
    /\ df \in SeqsUpTo(LedgerRows, 0, MaxRows)
    /\ writer = IdleThread
    /\ reader = IdleThread
    /\ IdlePdf
    /\ IdleCleaner
    /\ IdleParser

NextLedger ==
    \/ \E c \in LedgerAddCalls : add_custom_category(c[1], c[2], c[3])
    \/ \E c \in BulkLabels : \E ix \in SUBSET (0..(Len(df) - 1)) : bulk_categorize(c, ix)

SpecLedger == InitLedger /\ [][NextLedger]_vars

\* ---- automatic categorization of a caller's frame
\* records with a missing, an empty, the 'Other' and an assigned category; a
\* description that holds a keyword, one that holds none, an empty one
AutoRows ==
    {[Date |-> "2024-01-15", Description |-> r[1], Amount |-> r[2], Category |-> c] :
        r \in {<<"Starbucks coffee", -5>>, <<"xyz", 2000>>, <<"", 3>>},
        c \in {None, <<"">>, <<"Other">>, <<"Shopping">>}}

AutoColumns == {"Date", "Description", "Amount", "Category"}

InitAuto ==
    /\ InitEngine
    /\ df \in SeqsUpTo(AutoRows, 0, MaxRows)
    /\ columns \in {AutoColumns, AutoColumns \ {"Category"}, AutoColumns \ {"Amount"}}
    /\ "Category" \notin columns => \A j \in 1..Len(df) : df[j].Category = None
    /\ writer = IdleThread
    /\ reader = IdleThread
    /\ IdlePdf
    /\ IdleParser
    /\ text = None
    /\ normalized = NotNormalized
    /\ fed = None
    /\ strftime_pads_year = TRUE
    /\ cleaned = NotCleaned

NextAuto ==
    \/ \E c \in LedgerAddCalls : add_custom_category(c[1], c[2], c[3])
    \/ categorize_dataframe

SpecAuto == InitAuto /\ [][NextAuto]_vars


\* ---- registration and classification on two threads, with no lock: each
\* ---- step is one dict operation of one thread
\* add_custom_category: self.categories[name] = {...}
w_store ==
    /\ writer.pc = "store"
    /\ categories' = DictSet(categories, writer.name,
                             [keywords |-> writer.keywords, color |-> writer.color])
    /\ writer' = [writer EXCEPT !.pc = "keywords", !.j = 1]
    /\ UNCHANGED <<keyword_to_category, registered, n_adds, df, call, reader, pdf_vars, cleaner_vars, parser_vars>>

\* add_custom_category: one self.keyword_to_category[keyword.lower()] = name
w_keyword ==
    /\ writer.pc = "keywords"
    /\ writer.j <= Len(writer.keywords)
    /\ keyword_to_category' =
          DictSet(keyword_to_category, lower(writer.keywords[writer.j]), writer.name)
    /\ registered' = Append(registered, [keyword |-> lower(writer.keywords[writer.j]),
                                         category |-> writer.name])
    /\ writer' = [writer EXCEPT !.j = writer.j + 1]
    /\ UNCHANGED <<categories, n_adds, df, call, reader, pdf_vars, cleaner_vars, parser_vars>>

\* add_custom_category: the loop is over, the call returns
w_return ==
    /\ writer.pc = "keywords"
    /\ writer.j > Len(writer.keywords)
    /\ writer' = [writer EXCEPT !.pc = "done"]
    /\ n_adds' = n_adds + 1
    /\ UNCHANGED <<categories, keyword_to_category, registered, df, call, reader, pdf_vars, cleaner_vars, parser_vars>>

reader_frame ==
    UNCHANGED <<categories, keyword_to_category, registered, n_adds, df, call, writer,
                pdf_vars, cleaner_vars, parser_vars>>

\* categorize_transaction: if not description: return 'Other'
r_empty ==
    /\ reader.pc = "call"
    /\ Len(reader.description) = 0
    /\ reader' = [reader EXCEPT !.pc = "done", !.result = "Other"]
    /\ reader_frame

\* categorize_transaction: desc_lower = ...; the iterator over
\* self.keyword_to_category.items() is created and notes the dict's size
r_iter ==
    /\ reader.pc = "call"
    /\ Len(reader.description) > 0
    /\ reader' = [reader EXCEPT !.pc = "scan", !.pos = 0,
                                !.used = Len(keyword_to_category.keys)]
    /\ reader_frame

\* one step of the iterator: RuntimeError("dictionary changed size during
\* iteration") when the size is no longer the one noted; else the next item,
\* and the return when its keyword is in desc_lower
r_next ==
    /\ reader.pc = "scan"
    /\ IF Len(keyword_to_category.keys) # reader.used
       THEN reader' = [reader EXCEPT !.pc = "RuntimeError"]
       ELSE IF reader.pos >= Len(keyword_to_category.keys)
       THEN reader' = [reader EXCEPT !.pc = "words", !.pos = 0]
       ELSE LET keyword == keyword_to_category.keys[reader.pos + 1] IN
            IF Contains(keyword, lower(reader.description))
            THEN reader' = [reader EXCEPT !.pc = "done",
                                          !.result = keyword_to_category.val[keyword]]
            ELSE reader' = [reader EXCEPT !.pos = reader.pos + 1]
    /\ reader_frame

\* one iteration of: for word in words: if word in self.keyword_to_category
r_word ==
    LET words == split(lower(reader.description)) IN
    /\ reader.pc = "words"
    /\ reader.pos < Len(words)
    /\ IF HasKey(keyword_to_category, words[reader.pos + 1])
       THEN reader' = [reader EXCEPT !.pc = "done",
                          !.result = keyword_to_category.val[words[reader.pos + 1]]]
       ELSE reader' = [reader EXCEPT !.pos = reader.pos + 1]
    /\ reader_frame

\* the amount rules and the final return 'Other'
r_amount ==
    /\ reader.pc = "words"
    /\ reader.pos >= Len(split(lower(reader.description)))
    /\ reader' = [reader EXCEPT !.pc = "done", !.result = by_amount(reader.amount)]
    /\ reader_frame

RaceDescriptions == {"", "vet visit", "pet food store", "xyz", "wages"}

InitRace ==
    /\ InitEngine
    /\ df = <<>>
    /\ \E c \in AddCalls :
          writer = [pc |-> "store", name |-> c[1], keywords |-> c[2], color |-> c[3],
                    j |-> 0]
    /\ \E d \in RaceDescriptions :
          reader = [pc |-> "call", description |-> d, amount |-> None, pos |-> 0,
                    used |-> 0, result |-> ""]
    /\ IdlePdf
    /\ IdleCleaner
    /\ IdleParser

NextRace ==
    \/ w_store
    \/ w_keyword
    \/ w_return
    \/ r_empty
    \/ r_iter
    \/ r_next
    \/ r_word
    \/ r_amount

SpecRace == InitRace /\ [][NextRace]_vars

\* ---- get_suggestions
\* A confidence is a rational <<numerator, denominator>>.
\* for keyword in data['keywords']: if keyword in desc_lower: 1.0 for the
\* whole description, 0.8 otherwise; for word in words: for keyword in
\* data['keywords']: 0.3 if word in keyword or keyword in word.  In tenths.
keyword_matches(keywords, desc_lower) ==
    Cardinality({j \in 1..Len(keywords) : Contains(keywords[j], desc_lower)})

confidence_sum(keywords, desc_lower) ==
    LET words == split(desc_lower)
    IN 8 * keyword_matches(keywords, desc_lower)
       + 2 * Cardinality({j \in 1..Len(keywords) : keywords[j] = desc_lower})
       + 3 * Cardinality({p \in (1..Len(words)) \X (1..Len(keywords)) :
                             \/ Contains(words[p[1]], keywords[p[2]])
                             \/ Contains(keywords[p[2]], words[p[1]])})

\* min(confidence / keyword_matches, 1.0)
normalize_confidence(sum, matches) ==
    IF sum >= 10 * matches THEN <<1, 1>> ELSE <<sum, 10 * matches>>

\* confidence > 0.2
above_threshold(confidence) == 5 * confidence[1] > confidence[2]

\* the suggestions list before the sort: one entry per category, in the
\* order of self.categories, 'Other' skipped
RECURSIVE collect_suggestions(_, _, _)
collect_suggestions(cats, desc_lower, i) ==
    IF i > Len(cats.keys) THEN <<>>
    ELSE LET category == cats.keys[i]
             keywords == cats.val[category].keywords
             matches == keyword_matches(keywords, desc_lower)
             confidence == normalize_confidence(confidence_sum(keywords, desc_lower), matches)
         IN (IF category # "Other" /\ matches > 0 /\ above_threshold(confidence)
             THEN <<[category |-> category, confidence |-> confidence]>> ELSE <<>>)
                \o collect_suggestions(cats, desc_lower, i + 1)

\* the list as it is
keep_order(list) == list

\* suggestions.sort(key=lambda x: x[1], reverse=True): stable, so that entries
\* of equal confidence keep their order
sort_by_confidence(list) ==
    LET before(i, j) ==
            \/ ~PctLeq(list[i].confidence, list[j].confidence)
            \/ (PctEq(list[i].confidence, list[j].confidence) /\ i < j)
        place(i) == 1 + Cardinality({j \in 1..Len(list) : j # i /\ before(j, i)})
    IN [k \in 1..Len(list) |-> list[CHOOSE i \in 1..Len(list) : place(i) = k]]

suggest(cats, description) ==
    IF description = "" THEN <<>>
    ELSE LET sorted == sort_by_confidence(collect_suggestions(cats, lower(description), 1))
         IN SubSeq(sorted, 1, Min(3, Len(sorted)))

get_suggestions(description) ==
    /\ call' = [NoCall EXCEPT !.op = "get_suggestions", !.description = description,
                              !.suggestions = suggest(categories, description)]
    /\ registry_frame /\ ledger_frame /\ race_frame /\ UNCHANGED <<pdf_vars, cleaner_vars, parser_vars>>

\* descriptions handed to get_suggestions: none, the whole of one keyword,
\* keywords of two and of five categories, a keyword that spans two words
\* none of which holds it, no keyword
SuggestDescriptions ==
    {"", "netflix", "Amazon Prime", "amazon netflix uber starbucks pharmacy",
     "late fee", "xyz", "Xgas billX", "uber Xgas billX gym"}

NextSuggest ==
    \/ \E c \in AddCalls : add_custom_category(c[1], c[2], c[3])
    \/ \E d \in SuggestDescriptions : get_suggestions(d)

SpecSuggest == InitRegistry /\ [][NextSuggest]_vars

\* ---- data_cleaner.py: the normalizers and clean_dataframe
\* ------------------------------------------------------- Python str, int
Digits == <<"0", "1", "2", "3", "4", "5", "6", "7", "8", "9">>

CharAt(s, i) == IF i >= 1 /\ i <= Len(s) THEN SubSeq(s, i, i) ELSE ""

\* \d at position i
IsDigitAt(s, i) == \E v \in 1..10 : CharAt(s, i) = Digits[v]

DigitValue(c) == (CHOOSE v \in 1..10 : Digits[v] = c) - 1

\* int(s) of a string of digits
RECURSIVE int(_)
int(s) ==
    IF Len(s) = 0 THEN 0
    ELSE 10 * int(SubSeq(s, 1, Len(s) - 1)) + DigitValue(CharAt(s, Len(s)))

\* str(n) of a non-negative integer
RECURSIVE str(_)
str(n) == IF n < 10 THEN Digits[n + 1] ELSE str(n \div 10) \o Digits[(n % 10) + 1]

\* the %m, %d of strftime: two digits
TwoDigits(n) == Digits[(n \div 10) + 1] \o Digits[(n % 10) + 1]

\* the %Y of strftime: four digits where the C library pads, str(n) where not
FourDigits(n) ==
    Digits[(n \div 1000) + 1] \o Digits[((n \div 100) % 10) + 1]
        \o Digits[((n \div 10) % 10) + 1] \o Digits[(n % 10) + 1]

\* str.strip()
RECURSIVE lstrip(_)
lstrip(s) ==
    IF Len(s) > 0 /\ CharAt(s, 1) \in Whitespace THEN lstrip(SubSeq(s, 2, Len(s))) ELSE s

RECURSIVE rstrip(_)
rstrip(s) ==
    IF Len(s) > 0 /\ CharAt(s, Len(s)) \in Whitespace
    THEN rstrip(SubSeq(s, 1, Len(s) - 1)) ELSE s

strip(s) == rstrip(lstrip(s))

\* ------------------------------------------------------------ datetime
IsLeap(year) == (year % 4 = 0 /\ year % 100 # 0) \/ year % 400 = 0

DaysInMonth(year, month) ==
    IF month = 2 THEN (IF IsLeap(year) THEN 29 ELSE 28)
    ELSE IF month \in {4, 6, 9, 11} THEN 30 ELSE 31

\* datetime(year, month, day) raises ValueError unless this holds
ValidDate(year, month, day) ==
    /\ year >= 1 /\ year <= 9999
    /\ month >= 1 /\ month <= 12
    /\ day >= 1 /\ day <= DaysInMonth(year, month)

\* parsed_date.strftime('%Y-%m-%d')
strftime(year, month, day, pads) ==
    (IF pads THEN FourDigits(year) ELSE str(year))
        \o "-" \o TwoDigits(month) \o "-" \o TwoDigits(day)

\* ------------------------------------------------------- date_patterns
\* the length \d{1,2} takes at position i (greedy), 0 when there is no digit
OneOrTwoDigits(s, i) ==
    IF IsDigitAt(s, i) THEN (IF IsDigitAt(s, i + 1) THEN 2 ELSE 1) ELSE 0

\* \d{1,2} sep \d{1,2} sep \d{ylen} matched at position i: the three parts of
\* match.group().split(sep), or <<>> when the pattern does not match there.
\* A following separator fixes what each \d{1,2} takes: two digits can only
\* be followed by the separator when the second character is a digit.
match_mdy(s, i, sep, ylen) ==
    LET a == OneOrTwoDigits(s, i)
        j == i + a
        b == OneOrTwoDigits(s, j + 1)
        k == j + 1 + b
    IN IF /\ a > 0 /\ CharAt(s, j) = sep
          /\ b > 0 /\ CharAt(s, k) = sep
          /\ \A q \in 1..ylen : IsDigitAt(s, k + q)
       THEN <<SubSeq(s, i, j - 1), SubSeq(s, j + 1, k - 1), SubSeq(s, k + 1, k + ylen)>>
       ELSE <<>>

\* \d{4}-\d{1,2}-\d{1,2} matched at position i
match_ymd(s, i) ==
    LET b == OneOrTwoDigits(s, i + 5)
        k == i + 5 + b
        c == OneOrTwoDigits(s, k + 1)
    IN IF /\ \A q \in 0..3 : IsDigitAt(s, i + q)
          /\ CharAt(s, i + 4) = "-"
          /\ b > 0 /\ CharAt(s, k) = "-"
          /\ c > 0
       THEN <<SubSeq(s, i, i + 3), SubSeq(s, i + 5, k - 1), SubSeq(s, k + 1, k + c)>>
       ELSE <<>>

\* self.date_patterns, in order
date_patterns ==
    <<[sep |-> "/", ylen |-> 4, year_first |-> FALSE],
      [sep |-> "-", ylen |-> 4, year_first |-> FALSE],
      [sep |-> "-", ylen |-> 4, year_first |-> TRUE],
      [sep |-> ".", ylen |-> 4, year_first |-> FALSE],
      [sep |-> "/", ylen |-> 2, year_first |-> FALSE]>>

match_at(pattern, s, i) ==
    IF pattern.year_first THEN match_ymd(s, i) ELSE match_mdy(s, i, pattern.sep, pattern.ylen)

\* re.search(pattern, date_str): the parts of the leftmost match, <<>> for no match
search_date(pattern, s) ==
    LET hits == {i \in 1..Len(s) : match_at(pattern, s, i) # <<>>}
    IN IF hits = {} THEN <<>>
       ELSE match_at(pattern, s, CHOOSE i \in hits : \A j \in hits : i <= j)

\* ---------------------------------------------------------- clean_date
\* month, day, year whatever the separator and the lengths
date_of_month_first(sep, parts) ==
    [year |-> int(parts[3]), month |-> int(parts[1]), day |-> int(parts[2])]

\* the (year, month, day) the code hands to datetime(): which part is which
\* follows the separator found in date_part and the length of the parts
date_of(sep, parts) ==
    IF sep = "/"
    THEN LET year == IF Len(parts[3]) = 2
                     THEN (IF int(parts[3]) < 50 THEN "20" \o parts[3] ELSE "19" \o parts[3])
                     ELSE parts[3]
         IN [year |-> int(year), month |-> int(parts[1]), day |-> int(parts[2])]
    ELSE IF sep = "-" /\ Len(parts[1]) = 4
    THEN [year |-> int(parts[1]), month |-> int(parts[2]), day |-> int(parts[3])]
    ELSE [year |-> int(parts[3]), month |-> int(parts[1]), day |-> int(parts[2])]

\* for pattern in self.date_patterns: the first pattern that matches and
\* whose date_part is a calendar date decides; a ValueError moves on
RECURSIVE try_date_patterns(_, _, _)
try_date_patterns(s, k, pads) ==
    IF k > Len(date_patterns) THEN None
    ELSE LET parts == search_date(date_patterns[k], s)
         IN IF parts = <<>> THEN try_date_patterns(s, k + 1, pads)
            ELSE LET d == date_of(date_patterns[k].sep, parts)
                 IN IF ValidDate(d.year, d.month, d.day)
                    THEN <<strftime(d.year, d.month, d.day, pads)>>
                    ELSE try_date_patterns(s, k + 1, pads)

\* clean_date(date_str): a cell is None (NaN, or not a str) or <<text>>
clean_date(cell, pads) ==
    IF cell = None THEN None ELSE try_date_patterns(strip(cell[1]), 1, pads)

\* -------------------------------------------------------- clean_amount
\* re.sub(r'[$...]', '', s) and re.sub(r'\s+', '', s): drop the characters of a set
RECURSIVE remove_chars(_, _)
remove_chars(s, chars) ==
    IF Len(s) = 0 THEN ""
    ELSE (IF CharAt(s, 1) \in chars THEN "" ELSE CharAt(s, 1))
             \o remove_chars(SubSeq(s, 2, Len(s)), chars)

CurrencySymbols == {"$", "£", "€", "¥"}

startswith(s, prefix) == Len(s) >= Len(prefix) /\ SubSeq(s, 1, Len(prefix)) = prefix
endswith(s, suffix) ==
    Len(s) >= Len(suffix) /\ SubSeq(s, Len(s) - Len(suffix) + 1, Len(s)) = suffix

\* [\d,] at position i
IsNumCharAt(s, i) == IsDigitAt(s, i) \/ CharAt(s, i) = ","

\* the last position of the run of [\d,] that starts at i
RECURSIVE run_end(_, _)
run_end(s, i) == IF IsNumCharAt(s, i + 1) THEN run_end(s, i + 1) ELSE i

\* self.amount_patterns, in order: [\d,]+\.\d{2}, [\d,]+\.\d{1}, [\d,]+ by the
\* number of digits asked after the point
amount_patterns == <<2, 1, 0>>

\* an amount pattern matched at position i: match.group(), "" for no match.
\* [\d,]+ takes the whole run (the point is outside the class).
match_amount(decimals, s, i) ==
    IF ~IsNumCharAt(s, i) THEN ""
    ELSE LET e == run_end(s, i)
         IN IF decimals = 0 THEN SubSeq(s, i, e)
            ELSE IF CharAt(s, e + 1) = "." /\ \A q \in 1..decimals : IsDigitAt(s, e + 1 + q)
                 THEN SubSeq(s, i, e + 1 + decimals)
                 ELSE ""

search_amount(decimals, s) ==
    LET hits == {i \in 1..Len(s) : match_amount(decimals, s, i) # ""}
    IN IF hits = {} THEN ""
       ELSE match_amount(decimals, s, CHOOSE i \in hits : \A j \in hits : i <= j)

\* float(numeric_str) of digits with at most one point and at most two digits
\* after it, in hundredths; <<>> for the ValueError of float('')
float(numeric_str) ==
    LET dots == {i \in 1..Len(numeric_str) : CharAt(numeric_str, i) = "."}
    IN IF numeric_str = "" THEN <<>>
       ELSE IF dots = {} THEN <<100 * int(numeric_str)>>
       ELSE LET p == CHOOSE i \in dots : TRUE
                frac == SubSeq(numeric_str, p + 1, Len(numeric_str))
            IN <<100 * int(SubSeq(numeric_str, 1, p - 1))
                   + (IF Len(frac) = 1 THEN 10 * int(frac) ELSE int(frac))>>

\* a float: its sign bit and its magnitude in hundredths (-0.0 has neg and 0)
RECURSIVE try_amount_patterns(_, _, _)
try_amount_patterns(s, k, is_negative) ==
    IF k > Len(amount_patterns) THEN None
    ELSE LET group == search_amount(amount_patterns[k], s)
             amount == float(remove_chars(group, {","}))
         IN IF group = "" \/ amount = <<>> THEN try_amount_patterns(s, k + 1, is_negative)
            ELSE <<[neg |-> is_negative, hundredths |-> amount[1]]>>

\* amount_str.startswith('-') or amount_str.startswith('(') and amount_str.endswith(')')
is_negative_text(s) == startswith(s, "-") \/ (startswith(s, "(") /\ endswith(s, ")"))

clean_amount(cell) ==
    IF cell = None THEN None
    ELSE LET s == remove_chars(remove_chars(strip(cell[1]), CurrencySymbols), Whitespace)
             is_negative == is_negative_text(s)
         IN try_amount_patterns(IF is_negative THEN remove_chars(s, {"-", "(", ")"}) ELSE s,
                                1, is_negative)

\* --------------------------------------------------- clean_description
\* re.sub(r'\s+', ' ', s): every run of whitespace becomes one space
RECURSIVE collapse(_)
collapse(s) ==
    IF Len(s) = 0 THEN ""
    ELSE IF CharAt(s, 1) \in Whitespace
         THEN " " \o collapse(lstrip(s))
         ELSE CharAt(s, 1) \o collapse(SubSeq(s, 2, Len(s)))

\* (DEBIT|CREDIT|DR|CR) with re.IGNORECASE, in the order the alternation tries
Markers == <<"debit", "credit", "dr", "cr">>

\* re.sub(r'^(DEBIT|CREDIT|DR|CR)\s*', '', s): the first alternative that
\* the text starts with goes, with the whitespace after it
strip_prefix(s) ==
    LET hits == {k \in 1..Len(Markers) : startswith(lower(s), Markers[k])}
    IN IF hits = {} THEN s
       ELSE LET k == CHOOSE a \in hits : \A b \in hits : a <= b
            IN lstrip(SubSeq(s, Len(Markers[k]) + 1, Len(s)))

\* re.sub(r'\s*(DEBIT|CREDIT|DR|CR)$', '', s): the leftmost match is the
\* alternative the text ends with and the whitespace before it
strip_suffix(s) ==
    LET hits == {k \in 1..Len(Markers) : endswith(lower(s), Markers[k])}
    IN IF hits = {} THEN s
       ELSE LET k == CHOOSE a \in hits : \A b \in hits : Len(Markers[a]) >= Len(Markers[b])
            IN rstrip(SubSeq(s, 1, Len(s) - Len(Markers[k])))

clean_description(cell) ==
    IF cell = None THEN ""
    ELSE strip(strip_suffix(strip_prefix(collapse(strip(cell[1])))))

\* ----------------------------------------------------- clean_dataframe
\* str(x) of a float with at most two decimals: repr of the shortest form
float_str(amount) ==
    LET h == amount.hundredths
    IN (IF amount.neg THEN "-" ELSE "") \o str(h \div 100) \o "."
           \o (IF h % 100 = 0 THEN "0"
               ELSE IF h % 10 = 0 THEN Digits[((h % 100) \div 10) + 1]
               ELSE TwoDigits(h % 100))

\* the positions 1..n of the rows that satisfy a test
labels_from_one(flags) ==
    SelectSeq([j \in 1..Len(flags) |-> j], LAMBDA label : flags[label])

\* the labels 0..n-1 of the rows that satisfy a test, in order
labels_where(flags) ==
    SelectSeq([j \in 1..Len(flags) |-> j - 1], LAMBDA label : flags[label + 1])

\* cleaned_df['Date'].astype(str): None gives 'None'
date_astype_str(date) == IF date = None THEN "None" ELSE date[1]

\* cleaned_df['Amount'].astype(str): a column of floats holds NaN for None
\* ('nan'); a column where every value is None stays an object column ('None')
amount_astype_str(amount, all_none) ==
    IF amount = None THEN (IF all_none THEN "None" ELSE "nan") ELSE float_str(amount[1])

\* cleaned_df['_hash']
hash_of(row, all_none) ==
    lower(date_astype_str(row.Date) \o amount_astype_str(row.Amount, all_none)
              \o row.Description)

\* the three columns after .apply(self.clean_...), rows labelled 0..n-1; a
\* column the frame does not have is left as it is (None, "" here)
apply_cleaners(frame, cols, pads) ==
    [j \in 1..Len(frame) |->
        [index |-> j - 1,
         Date |-> IF "Date" \in cols THEN clean_date(frame[j].Date, pads) ELSE None,
         Amount |-> IF "Amount" \in cols THEN clean_amount(frame[j].Amount) ELSE None,
         Description |-> IF "Description" \in cols
                         THEN clean_description(frame[j].Description) ELSE ""]]

find_issues(rows, cols) ==
    LET n == Len(rows)
        all_none == \A j \in 1..n : rows[j].Amount = None
        dup(j) == \E k \in 1..n : k # j /\ hash_of(rows[k], all_none) = hash_of(rows[j], all_none)
    IN [invalid_dates |->
            IF "Date" \in cols THEN labels_where([j \in 1..n |-> rows[j].Date = None]) ELSE <<>>,
        invalid_amounts |->
            IF "Amount" \in cols THEN labels_where([j \in 1..n |-> rows[j].Amount = None])
            ELSE <<>>,
        empty_descriptions |->
            IF "Description" \in cols THEN labels_where([j \in 1..n |-> rows[j].Description = ""])
            ELSE <<>>,
        duplicates |->
            IF {"Date", "Amount", "Description"} \subseteq cols
            THEN labels_where([j \in 1..n |-> dup(j)]) ELSE <<>>,
        removed_rows |-> None]

\* the rows without the drop
keep_all(rows) == rows

\* cleaned_df.dropna(subset=['Date', 'Amount'])
dropna(rows) == SelectSeq(rows, LAMBDA row : row.Date # None /\ row.Amount # None)

\* cleaned_df = df: the caller's frame under a second name
alias(frame) == [rows |-> frame, own |-> FALSE]

\* cleaned_df = df.copy(): a frame of its own that holds the same rows
copy(frame) == [rows |-> frame, own |-> TRUE]

\* the caller's frame after the call: the column assignments
\* cleaned_df['Date'] = ..., ['Amount'] = ..., ['Description'] = ... write
\* into the frame cleaned_df names; drop and dropna make new frames
caller_frame(frame, cols, pads) ==
    LET cleaned_df == copy(frame)
    IN IF cleaned_df.own THEN frame ELSE apply_cleaners(cleaned_df.rows, cols, pads)

\* clean_dataframe(df): the frame and the issues it returns, or the KeyError
\* of dropna on a frame without a Date or an Amount column
clean_dataframe(frame, cols, pads) ==
    LET rows == apply_cleaners(frame, cols, pads)
        issues == find_issues(rows, cols)
        kept == dropna(rows)
    IN IF ~({"Date", "Amount"} \subseteq cols)
       THEN [status |-> "KeyError", frame |-> <<>>, issues |-> NoIssues]
       ELSE [status |-> "returned", frame |-> kept,
             issues |-> IF Len(rows) # Len(kept)
                        THEN [issues EXCEPT !.removed_rows = <<Len(rows) - Len(kept)>>]
                        ELSE issues]

\* ------------------------------------------------------------------ inputs
MaxRecords == 2     \* records of the frame handed to clean_dataframe

\* date cells: the five formats, one- and two-digit parts, days and months
\* that no calendar has, 29 February of leap and non-leap years, years below
\* 1000, two-digit years on both sides of 50, text around the date, no date
DateTexts ==
    {"01/15/2024", "1/5/2024", "12/31/1999", "02/29/2024", "02/29/2023", "02/29/1900",
     "02/30/2024", "04/31/2024", "13/01/2024", "00/10/2024", "01/00/2024", "01/32/2024",
     "01/05/0999", "01/05/0000", "15/01/2024", "2024/01/15", "1/2/20245",
     "01-15-2024", "2024-01-15", "2024-1-5", "2024-02-30", "0999-01-05", "999-01-05",
     "01.15.2024", "02.30.2024", "01/15/24", "01/15/75", "02/29/23", "02/29/24",
     "Posted 01/15/2024 ref 7", "  01/15/2024 ", "01/15", "240115"}

\* amount cells: currency symbols, grouping, zero to three decimals, the
\* minus sign and the parentheses in every place, no digit at all
AmountTexts ==
    {"(1,234.56)", "-$45.20", "$3,000.00", "45.20", "1,234.5", "1,234", "1234",
     "$-45.20", "- 45.20", "45.20-", "(45.20", "45.20)", "(-45.20)", "-(45.20)",
     "( $ 45.20 )", "--45.20", "-0.00", "0.00", ".50", "-.5", "1.5", "5.05",
     "1,234.567", "12abc34.50", "£7", "-€7.5", ",", "-", "$", "()", "N/A"}

\* description cells: the markers alone, as first and last token in every
\* letter case, as the first letters of a first word and the last letters of
\* a last word, whitespace runs, nothing
DescriptionTexts ==
    {"Coffee Shop", "COFFEE SHOP", "  coffee \t shop\n", "DEBIT Coffee Shop",
     "Coffee Shop CR", "credit Coffee Shop debit", "dr Coffee  Shop Cr", "DEBIT", "cr",
     "DEBIT CREDIT", "DRUG STORE", "CREDITOR PAYMENT", "Drive Thru", "DEBITCARD PURCHASE",
     "PAYMENT ADDR", "Cafe Credit", "STORE NCR", "Coffee DR Shop", "5Guys", "Guys", ""}

\* a cell: None (NaN) or <<text>>
NormalizerCells == {None} \cup {<<t>> : t \in DateTexts \cup AmountTexts \cup DescriptionTexts}

RawRow(date, description, amount) ==
    [Date |-> date, Description |-> description, Amount |-> amount]

\* records handed to clean_dataframe: the same transaction written in two
\* ways, records that differ in one component, amounts 0.00 and -0.00,
\* descriptions that start with the last digit of the other record's amount,
\* a date, an amount and a description that do not normalize, empty cells
RawRows ==
    {RawRow(<<"01/15/2024">>, <<"Coffee Shop">>, <<"1.5">>),
     RawRow(<<"2024-01-15">>, <<"COFFEE SHOP">>, <<"$1.50">>),
     RawRow(<<"01/16/2024">>, <<"Coffee Shop">>, <<"1.5">>),
     RawRow(<<"01/15/2024">>, <<"Coffee Shop">>, <<"(1.50)">>),
     RawRow(<<"01/15/2024">>, <<"5Guys">>, <<"1.5">>),
     RawRow(<<"01/15/2024">>, <<"Guys">>, <<"1.55">>),
     RawRow(<<"01/15/2024">>, <<"Coffee Shop">>, <<"0.00">>),
     RawRow(<<"01/15/2024">>, <<"coffee shop">>, <<"-0.00">>),
     RawRow(<<"02/30/2024">>, <<"Coffee Shop">>, <<"1.5">>),
     RawRow(<<"01/15/2024">>, <<"DEBIT">>, <<"N/A">>),
     RawRow(<<"01/17/2024">>, <<"">>, <<"1.5">>),
     RawRow(None, None, None)}

RequiredColumns == {"Date", "Description", "Amount"}

\* ------------------------------------------------- the normalizers, one call
call_clean_date ==
    /\ normalized.fn = ""
    /\ normalized' = [NotNormalized EXCEPT !.fn = "clean_date",
                                           !.date = clean_date(text, strftime_pads_year)]
    /\ UNCHANGED <<text, fed, strftime_pads_year, columns, cleaned, pdf_vars, engine_vars, parser_vars>>

call_clean_amount ==
    /\ normalized.fn = ""
    /\ fed = None
    /\ normalized' = [NotNormalized EXCEPT !.fn = "clean_amount",
                                           !.amount = clean_amount(text)]
    /\ UNCHANGED <<text, fed, strftime_pads_year, columns, cleaned, pdf_vars, engine_vars, parser_vars>>

call_clean_description ==
    /\ normalized.fn = ""
    /\ fed = None
    /\ normalized' = [NotNormalized EXCEPT !.fn = "clean_description",
                                           !.description = clean_description(text)]
    /\ UNCHANGED <<text, fed, strftime_pads_year, columns, cleaned, pdf_vars, engine_vars, parser_vars>>

\* the caller hands the date it got back to clean_date
feed_back ==
    /\ normalized.fn = "clean_date"
    /\ normalized.date # None
    /\ fed = None
    /\ text' = normalized.date
    /\ fed' = normalized.date
    /\ normalized' = NotNormalized
    /\ UNCHANGED <<strftime_pads_year, columns, cleaned, pdf_vars, engine_vars, parser_vars>>

InitNormalize ==
    /\ text \in NormalizerCells
    /\ normalized = NotNormalized
    /\ fed = None
    /\ strftime_pads_year \in BOOLEAN
    /\ columns = {}
    /\ cleaned = NotCleaned
    /\ IdleEngine
    /\ IdlePdf
    /\ IdleParser

NextNormalize ==
    \/ call_clean_date
    \/ call_clean_amount
    \/ call_clean_description
    \/ feed_back

SpecNormalize == InitNormalize /\ [][NextNormalize]_vars

\* ------------------------------------------------------ clean_dataframe
call_clean_dataframe ==
    /\ cleaned.status = ""
    /\ cleaned' = clean_dataframe(df, columns, strftime_pads_year)
    /\ df' = caller_frame(df, columns, strftime_pads_year)
    /\ UNCHANGED <<text, normalized, fed, strftime_pads_year, columns, pdf_vars,
                   categories, keyword_to_category, registered, n_adds, call, writer,
                   reader, parser_vars>>

InitClean ==
    /\ df \in SeqsUpTo(RawRows, 0, MaxRecords)
    /\ columns \in {RequiredColumns} \cup {RequiredColumns \ {c} : c \in RequiredColumns}
    /\ strftime_pads_year \in BOOLEAN
    /\ cleaned = NotCleaned
    /\ text = None
    /\ normalized = NotNormalized
    /\ fed = None
    /\ categories = EmptyDict
    /\ keyword_to_category = EmptyDict
    /\ registered = <<>>
    /\ n_adds = 0
    /\ call = NoCall
    /\ writer = IdleThread
    /\ reader = IdleThread
    /\ IdlePdf
    /\ IdleParser

NextClean == call_clean_dataframe

SpecClean == InitClean /\ [][NextClean]_vars

\* ================================ pdf_processor.py: the detector and the parser
\* ---------------------------------------------------------- detect_bank
\* the same chain with the 'citi' test first
detect_bank_citi_first(t) ==
    LET text_lower == lower(t)
    IN IF Contains("citibank", text_lower) \/ Contains("citi", text_lower)
       THEN "citibank"
       ELSE IF Contains("chase", text_lower) \/ Contains("jpmorgan", text_lower)
       THEN "chase"
       ELSE IF Contains("bank of america", text_lower) \/ Contains("bofa", text_lower)
       THEN "bank_of_america"
       ELSE IF Contains("wells fargo", text_lower) THEN "wells_fargo"
       ELSE IF Contains("hsbc", text_lower) THEN "hsbc_bermuda"
       ELSE IF Contains("butterfield", text_lower) THEN "butterfield_bermuda"
       ELSE "generic"

\* detect_bank(text): the if / elif chain over text.lower()
detect_bank(t) ==
    LET text_lower == lower(t)
    IN IF Contains("chase", text_lower) \/ Contains("jpmorgan", text_lower)
       THEN "chase"
       ELSE IF Contains("bank of america", text_lower) \/ Contains("bofa", text_lower)
       THEN "bank_of_america"
       ELSE IF Contains("wells fargo", text_lower) THEN "wells_fargo"
       ELSE IF Contains("citibank", text_lower) \/ Contains("citi", text_lower)
       THEN "citibank"
       ELSE IF Contains("hsbc", text_lower) THEN "hsbc_bermuda"
       ELSE IF Contains("butterfield", text_lower) THEN "butterfield_bermuda"
       ELSE "generic"

\* self.bank_patterns: the six profiles hold the same skip_lines
bank_patterns ==
    [b \in {"chase", "bank_of_america", "wells_fargo", "citibank", "hsbc_bermuda",
            "butterfield_bermuda"} |->
        [skip_lines |-> <<"DATE", "DESCRIPTION", "AMOUNT", "BALANCE">>]]

\* self.bank_patterns.get(bank_type, {}).get('skip_lines', [])
skip_words(bank_type) ==
    IF bank_type \in DOMAIN bank_patterns THEN bank_patterns[bank_type].skip_lines ELSE <<>>

\* ------------------------------------------------------------------- re
\* A pattern is a sequence of items; an item takes between min and max
\* characters of a class (any number from min on when plus), as many as the
\* rest of the pattern allows.
DigitChars == {Digits[v] : v \in 1..10}
NumChars == DigitChars \cup {","}

Item(of, min, max) == [of |-> of, min |-> min, max |-> max, plus |-> FALSE]
Lit(c) == Item({c}, 1, 1)
Opt(of) == Item(of, 0, 1)
DigitsN(n) == Item(DigitChars, n, n)
DigitsUpTo(n) == Item(DigitChars, 1, n)
Plus(of) == [of |-> of, min |-> 1, max |-> 1, plus |-> TRUE]

\* the number of characters from position i on that are in the class
RECURSIVE run_of(_, _, _)
run_of(s, i, of) == IF CharAt(s, i) \in of THEN 1 + run_of(s, i + 1, of) ELSE 0

\* the position after the match of the items k.. of the pattern at position
\* i, 0 when they do not match there: each item takes the most characters
\* that let the rest match (greedy, with backtracking)
RECURSIVE rx_end(_, _, _, _)
rx_end(pattern, k, s, i) ==
    IF k > Len(pattern) THEN i
    ELSE LET item == pattern[k]
             run == run_of(s, i, item.of)
             most == IF item.plus THEN run ELSE Min(run, item.max)
             takes == {n \in item.min..most : rx_end(pattern, k + 1, s, i + n) # 0}
         IN IF takes = {} THEN 0
            ELSE rx_end(pattern, k + 1, s, i + (CHOOSE n \in takes : \A m \in takes : m <= n))

\* re.search(pattern, s): the leftmost match [start, end), None for no match
rx_search(pattern, s) ==
    LET hits == {i \in 1..Len(s) : rx_end(pattern, 1, s, i) # 0}
    IN IF hits = {} THEN None
       ELSE LET i == CHOOSE h \in hits : \A j \in hits : h <= j
            IN <<[start |-> i, end |-> rx_end(pattern, 1, s, i)]>>

\* match.group()
group(s, m) == SubSeq(s, m.start, m.end - 1)

\* s.find(sub): the first position of sub in s
find(s, sub) ==
    CHOOSE i \in 1..(Len(s) + 1) :
        /\ SubSeq(s, i, i + Len(sub) - 1) = sub
        /\ \A j \in 1..(i - 1) : SubSeq(s, j, j + Len(sub) - 1) # sub

\* ----------------------------------------------- parse_transaction_line
\* date_patterns of parse_transaction_line, in order
line_date_patterns ==
    <<<<DigitsN(2), Lit("/"), DigitsN(2), Lit("/"), DigitsN(4)>>,
      <<DigitsN(2), Lit("-"), DigitsN(2), Lit("-"), DigitsN(4)>>,
      <<DigitsN(4), Lit("-"), DigitsN(2), Lit("-"), DigitsN(2)>>,
      <<DigitsUpTo(2), Lit("/"), DigitsUpTo(2), Lit("/"), DigitsN(4)>>,
      <<DigitsUpTo(2), Lit("/"), DigitsUpTo(2), Lit("/"), DigitsN(2)>>>>

\* amount_patterns of parse_transaction_line, in order
line_amount_patterns ==
    <<<<Opt({"-"}), Opt({"$"}), Opt(Whitespace), Plus(NumChars), Lit("."), DigitsN(2)>>,
      <<Opt({"-"}), Opt({"$"}), Opt(Whitespace), Plus(NumChars), DigitsN(2)>>,
      <<Opt({"-"}), Opt({"$"}), Opt(Whitespace), Plus(NumChars)>>,
      <<Opt({"-"}), Plus(NumChars), Lit("."), DigitsN(2)>>,
      <<Opt({"-"}), Plus(NumChars), Lit("."), DigitsN(1)>>>>

\* for pattern in date_patterns: the first pattern that matches, then break
RECURSIVE search_line_date(_, _)
search_line_date(line, k) ==
    IF k > Len(line_date_patterns) THEN None
    ELSE LET date_match == rx_search(line_date_patterns[k], line)
         IN IF date_match # None THEN date_match ELSE search_line_date(line, k + 1)

\* float(amount_str): an optional minus, digits, at most one point; None for
\* the ValueError
float_of(amount_str) ==
    LET neg == startswith(amount_str, "-")
        body == IF neg THEN SubSeq(amount_str, 2, Len(amount_str)) ELSE amount_str
        points == {i \in 1..Len(body) : CharAt(body, i) = "."}
    IN IF /\ \A i \in 1..Len(body) : IsDigitAt(body, i) \/ i \in points
          /\ Cardinality(points) <= 1
          /\ Len(body) > Cardinality(points)
       THEN <<[neg |-> neg, hundredths |-> float(body)[1]]>>
       ELSE None

\* for pattern in amount_patterns: the first pattern whose match float()
\* takes decides amount and amount_match; a ValueError moves on
RECURSIVE search_line_amount(_, _)
search_line_amount(line, k) ==
    IF k > Len(line_amount_patterns) THEN None
    ELSE LET amount_match == rx_search(line_amount_patterns[k], line)
         IN IF amount_match = None THEN search_line_amount(line, k + 1)
            ELSE LET amount_str == strip(remove_chars(group(line, amount_match[1]),
                                                      {"$", ","}))
                     amount == float_of(amount_str)
                 IN IF amount = None THEN search_line_amount(line, k + 1)
                    ELSE <<[match |-> amount_match[1], amount |-> amount[1]]>>

\* the description without the removal of the leading reference number
keep_reference(description) == description

\* re.sub(r'^\d+\s*', '', description)
strip_reference(description) ==
    LET digits == run_of(description, 1, DigitChars)
    IN IF digits = 0 THEN description
       ELSE lstrip(SubSeq(description, digits + 1, Len(description)))

\* line[date_end:amount_start], cleaned up
description_between(line, date_match, amount_match) ==
    LET date_end == date_match.end
        amount_start == find(line, group(line, amount_match))
    IN strip(strip_reference(collapse(strip(SubSeq(line, date_end, amount_start - 1)))))

\* parse_transaction_line(line, bank_type) on the text of a line: <<record>>
\* or None
parse_transaction_line_of(line, bank_type) ==
    IF strip(line) = "" THEN None
    ELSE IF \E j \in 1..Len(skip_words(bank_type)) :
                Contains(lower(skip_words(bank_type)[j]), lower(line))
    THEN None
    ELSE LET date_match == search_line_date(line, 1)
         IN IF date_match = None THEN None
            ELSE LET found == search_line_amount(line, 1)
                 IN IF found = None THEN None
                    ELSE LET description ==
                                 description_between(line, date_match[1], found[1].match)
                         IN IF Len(description) < 3 THEN None
                            ELSE <<[date |-> group(line, date_match[1]),
                                    description |-> description,
                                    amount |-> found[1].amount]>>

\* ------------------------------------------------- extract_from_tables
\* A row is the list of its cells; a cell is its text, "" for an empty cell
\* (None or ''): `if cell` drops both.
\* ' '.join([str(cell) for cell in row if cell])
RECURSIVE join_cells(_)
join_cells(row) ==
    IF Len(row) = 0 THEN ""
    ELSE LET rest == join_cells(Tail(row))
         IN IF Head(row) = "" THEN rest
            ELSE IF rest = "" THEN Head(row)
            ELSE Head(row) \o " " \o rest

\* the rows of the tables of the pages, in order: the records of the rows
\* that pass `if not row or len(row) < 3: continue` and parse
RECURSIVE extract_from_tables_of(_)
extract_from_tables_of(rows) ==
    IF Len(rows) = 0 THEN <<>>
    ELSE LET row == Head(rows)
             transaction == IF Len(row) < 3 THEN None
                            ELSE parse_transaction_line_of(join_cells(row), "generic")
         IN transaction \o extract_from_tables_of(Tail(rows))

\* ------------------------------------------------------------------ inputs
MaxGridRows == 2    \* rows of the table handed to extract_from_tables

\* statement texts: each token alone and in another letter case, two tokens
\* in both orders, a token inside a word, a token split by a second space, none
BankTexts ==
    {"Chase Bank", "JPMORGAN", "Bank of America", "BofA", "Wells Fargo", "WELLS  FARGO",
     "Citibank", "Citizens Trust", "HSBC Bermuda", "Butterfield", "Chase and HSBC",
     "HSBC then Chase", "Butterfield, Citi", "Citi and Chase", "BofA / Wells Fargo",
     "purchase", "Acme Bank", ""}

\* statement lines: the date formats, amounts with sign, dollar sign, grouping
\* and zero to two decimals, a reference number, a description of two and of
\* three characters, whitespace runs, header words, the amount before the
\* date and inside it, no date, no amount, nothing
LineTexts ==
    {"01/15/2024 Coffee Shop 4.50", "01/15/2024 12345 Coffee Shop 4.50",
     "01/15/2024   Coffee \t Shop   4.50", "01/15/2024 AB 4.50", "01/15/2024 ABC 4.50",
     "01/15/2024 77 4.50", "01/15/2024 7 Eleven 4.50", "4.50 Coffee Shop 01/15/2024",
     "01/15/2024 Coffee Shop", "Coffee Shop 4.50", "   ", "Date Description Amount",
     "01/15/2024 Update fee 4.50", "01-15-2024 Coffee Shop 4.50",
     "2024-01-15 Coffee Shop 4.50", "1/5/2024 Coffee Shop 4.50", "1/5/24 Coffee Shop 4.50",
     "1/5/24 Coffee Shop 450", "1/5/24 Coffee Shop 45", "01/15/2024 Coffee Shop -4.50",
     "01/15/2024 Coffee Shop $4.50", "01/15/2024 Coffee Shop -$4.50",
     "01/15/2024 Coffee Shop - 4.50", "01/15/2024 Coffee Shop $ 4.50",
     "01/15/2024 Coffee Shop 1,234.56", "01/15/2024 Coffee Shop 4.5",
     "01/15/2024 Coffee, Shop 4.50", "01/15/2024.50 Coffee Shop",
     "Ref 9 01/15/2024 Coffee Shop 4.50", "1/5/2024 x 01/06/2024 Coffee 4.50",
     "01/15/2024 Coffee 4.50 Shop 9.99", "01/15/2024 Coffee Shop ,.50",
     "01/15/2024 Chase card 4.50"}

\* table rows: three filled cells, one filled cell of three, two filled cells
\* of three, two cells, five cells with three filled, no cell, empty cells,
\* a header
GridRows ==
    {<<"01/15/2024", "Coffee Shop", "4.50">>,
     <<"01/15/2024 Coffee Shop 4.50", "", "">>,
     <<"01/16/2024", "Book Store 12.00", "">>,
     <<"01/15/2024 Coffee Shop", "4.50">>,
     <<"01/17/2024", "", "Gas Station", "", "7.25">>,
     <<>>,
     <<"", "", "">>,
     <<"Date", "Description", "Amount">>}

Profiles == DOMAIN bank_patterns \cup {"generic"}

\* ------------------------------------------- the detector and the parser, one call
call_detect_bank ==
    /\ parsing.fn = ""
    /\ parsing' = [NotParsed EXCEPT !.fn = "detect_bank",
                                    !.bank_type = detect_bank(page_text)]
    /\ UNCHANGED <<page_text, grid, pdf_vars, engine_vars, cleaner_vars>>

\* process_pdf hands each line to the parser with the profile detect_bank
\* gave; extract_from_tables hands it 'generic'
call_parse_transaction_line(bank_type) ==
    /\ \/ parsing.fn = ""
       \/ parsing.fn = "detect_bank" /\ parsing.bank_type = bank_type
    /\ parsing' = [NotParsed EXCEPT
                       !.fn = "parse_transaction_line",
                       !.bank_type = bank_type,
                       !.transaction = parse_transaction_line_of(page_text, bank_type)]
    /\ UNCHANGED <<page_text, grid, pdf_vars, engine_vars, cleaner_vars>>

call_extract_from_tables ==
    /\ parsing.fn = ""
    /\ parsing' = [NotParsed EXCEPT !.fn = "extract_from_tables",
                                    !.transactions = extract_from_tables_of(grid)]
    /\ UNCHANGED <<page_text, grid, pdf_vars, engine_vars, cleaner_vars>>

InitParse ==
    /\ \/ page_text \in BankTexts \cup LineTexts /\ grid = <<>>
       \/ page_text = "" /\ grid \in SeqsUpTo(GridRows, 1, MaxGridRows)
    /\ parsing = NotParsed
    /\ IdlePdf
    /\ IdleEngine
    /\ IdleCleaner

NextParse ==
    \/ call_detect_bank
    \/ \E bank_type \in Profiles : call_parse_transaction_line(bank_type)
    \/ call_extract_from_tables

SpecParse == InitParse /\ [][NextParse]_vars

\* ================================================================ properties

\* the positions of the combined output holding record r
Occurrences(out, r) == {p \in 1..Len(out) : out[p] = r}
RecordsOf(frame) == {frame[j] : j \in 1..Len(frame)}

\* C1: for a batch of two or more documents the combined output lists the
\* records in input-document order: all records of document i before all
\* records of document j whenever i < j, whatever the completion order.
C1_InputOrder ==
    (main_pc = "done" /\ Len(pdf_paths) >= 2) =>
        \A p, q \in 1..Len(ret.value) :
            p < q => ret.value[p].doc <= ret.value[q].doc

\* C2: whatever subset of the documents fails, the call returns normally, every
\* task runs to its end (none is cancelled), and the output holds each record of
\* every non-failing document exactly once and no record of a failing document.
C2_BatchIsolation ==
    /\ main_pc # "done" => ENABLED NextBatch
    /\ main_pc = "done" =>
        /\ ret.status = "returned"
        /\ \A i \in Docs :
            /\ tasks[i].pc = "exited"
            /\ ~pdf_paths[i].text_ok => tasks[i].outcome = "raised"
            /\ IF tasks[i].outcome = "raised"
               THEN \A p \in 1..Len(ret.value) : ret.value[p].doc # i
               ELSE /\ \A r \in RecordsOf(tasks[i].transactions) :
                         Cardinality(Occurrences(ret.value, r)) = 1
                    /\ \A p \in 1..Len(ret.value) :
                         ret.value[p].doc = i =>
                             ret.value[p] \in RecordsOf(tasks[i].transactions)

C2_Witness ==
    /\ main_pc = "done"
    /\ Len(pdf_paths) = 3
    /\ tasks[2].outcome = "raised"
    /\ tasks[1].transactions # <<>>
    /\ tasks[3].transactions # <<>>
    /\ Len(ret.value) = 2

\* C3: during one process_multiple_pdfs call no progress event carries a
\* percent lower than an earlier event of the same call.
C3_MonotonePercent ==
    sink.last # None => PctEq(sink.last, sink.max)

\* C6: the number of extraction tasks running at the same time never exceeds
\* min(number of documents, CPU count).
C6_BoundedFanOut ==
    Cardinality(Running) <= Min(Len(pdf_paths), cpu_count)

C6_Witness ==
    /\ Cardinality(Running) = cpu_count
    /\ cpu_count < Len(pdf_paths)
    /\ queue # <<>>

\* C4: in one process_pdf call the percents delivered are non-decreasing and
\* start at 0; the milestones come in the order text read, format detected,
\* parsing, optional table fallback, completion; a successful call ends at 100
\* and a failing call never delivers 100.
MilestoneRank ==
    [start |-> 0, text_read |-> 1, format |-> 2, parsing |-> 3, line |-> 3,
     table |-> 4, done |-> 5]

C4_ProgressOfOneCall ==
    /\ sink.last # None =>
        /\ PctEq(sink.first, Pct(0))
        /\ PctEq(sink.last, sink.max)
        /\ \A k \in sink.seen : MilestoneRank[k] <= MilestoneRank[sink.kind]
    /\ ret.status = "returned" =>
        /\ PctEq(sink.last, Pct(100))
        /\ sink.kind = "done"
        /\ {"start", "text_read", "format", "parsing", "done"} \subseteq sink.seen
    /\ ret.status = "raised" =>
        /\ "done" \notin sink.seen
        /\ ~PctLeq(Pct(100), sink.max)

C4_Witness ==
    /\ ret.status = "returned"
    /\ {"line", "table"} \subseteq sink.seen
    /\ PctEq(sink.last, Pct(100))

\* C5: a categorize_transaction call that runs together with an
\* add_custom_category call never reads the keyword lookup while the
\* registration is half done (category stored, keywords not all in the lookup)
\* and never fails because the table changed during its scan.
MidMutation == writer.pc = "keywords" /\ writer.j <= Len(writer.keywords)

C5_SerializedRegistration ==
    [][(reader' # reader) => (~MidMutation /\ reader'.pc # "RuntimeError")]_vars

\* C7: after construction and after any add_custom_category calls, 'Other'
\* is registered and its keyword list is empty.
C7_OtherIsFallback ==
    /\ HasKey(categories, "Other")
    /\ categories.val["Other"].keywords = <<>>

\* C8: add_custom_category only extends the registry: every category
\* registered before a call is registered after it with the same keywords and
\* color, and every key of the keyword lookup is still a key of it.
C8_OnlyExtends ==
    [][/\ \A c \in DOMAIN categories.val :
            /\ c \in DOMAIN categories'.val
            /\ categories'.val[c] = categories.val[c]
       /\ DOMAIN keyword_to_category.val \subseteq DOMAIN keyword_to_category'.val]_vars

\* the registrations whose keyword is in the (lowercased) description
Matching(description) ==
    {j \in 1..Len(registered) : Contains(registered[j].keyword, lower(description))}

FirstOf(S) == CHOOSE j \in S : \A i \in S : j <= i
LastOf(S) == CHOOSE j \in S : \A i \in S : i <= j

\* C9 as stated: for a description holding keywords of two categories,
\* categorize_transaction returns the category of whichever of those keywords
\* was registered first.
C9_FirstRegisteredCategory ==
    (/\ call.op = "categorize_transaction"
     /\ Cardinality({registered[j].category : j \in Matching(call.description)}) >= 2)
    => call.result = registered[FirstOf(Matching(call.description))].category

\* C9 as amended: for a description holding a keyword, categorize_transaction
\* returns the category the lookup holds for the keyword among them whose first
\* registration is the earliest, that is the category this keyword was
\* registered under most recently.
C9_FirstMatchCurrentCategory ==
    (/\ call.op = "categorize_transaction"
     /\ call.description # ""
     /\ Matching(call.description) # {})
    => LET first == registered[FirstOf(Matching(call.description))].keyword
           same == {j \in 1..Len(registered) : registered[j].keyword = first}
       IN call.result = registered[LastOf(same)].category

C9_Witness ==
    /\ call.op = "categorize_transaction"
    /\ n_adds > 0
    /\ Cardinality({registered[j].category : j \in Matching(call.description)}) >= 2
    /\ call.result # registered[FirstOf(Matching(call.description))].category

\* C10: bulk_categorize with a label that is not registered ends in ValueError
\* and changes no record.
C10_UnknownCategoryRejected ==
    [][(call'.op = "bulk_categorize" /\ ~HasKey(categories, call'.category))
       => (call'.result = "ValueError" /\ df' = df)]_vars

C10_Witness ==
    /\ call.op = "bulk_categorize"
    /\ call.result = "ValueError"
    /\ call.category = "income"
    /\ Cardinality(call.indices) = 2
    /\ \E j \in 1..Len(df) : df[j].Category = "Shopping"

\* C11: a bulk_categorize call with a registered category gives the category
\* to exactly the records at the given indices; every other record keeps its
\* category and every record keeps its date, description and amount.
C11_BulkAssignFrame ==
    [][(call'.op = "bulk_categorize" /\ call'.result = "returned")
       => /\ Len(df') = Len(df)
          /\ \A j \in 1..Len(df) :
                /\ df'[j].Date = df[j].Date
                /\ df'[j].Description = df[j].Description
                /\ df'[j].Amount = df[j].Amount
                /\ df'[j].Category = IF (j - 1) \in call'.indices
                                     THEN call'.category ELSE df[j].Category]_vars

C11_Witness ==
    /\ call.op = "bulk_categorize"
    /\ call.result = "returned"
    /\ call.category = "Pets"
    /\ call.indices = {0}
    /\ Len(df) = 2
    /\ df[1].Category = "Pets"
    /\ df[2].Category = "Shopping"

\* ---- the record at position j of the frame handed to clean_dataframe, normalized
NormalDate(j) == clean_date(df[j].Date, strftime_pads_year)
NormalAmount(j) == clean_amount(df[j].Amount)
NormalDescription(j) == clean_description(df[j].Description)

\* two floats are equal: 0.0 and -0.0 are
EqualAmounts(a, b) ==
    IF a = None \/ b = None THEN a = b
    ELSE a[1].hundredths = b[1].hundredths /\ (a[1].neg = b[1].neg \/ a[1].hundredths = 0)

SameTransaction(i, j) ==
    /\ NormalDate(i) = NormalDate(j)
    /\ EqualAmounts(NormalAmount(i), NormalAmount(j))
    /\ lower(NormalDescription(i)) = lower(NormalDescription(j))

Survives(j) == NormalDate(j) # None /\ NormalAmount(j) # None

Dropped == Cardinality({j \in 1..Len(df) : ~Survives(j)})

Range(seq) == {seq[i] : i \in 1..Len(seq)}

\* the records returned are the surviving records, normalized, in order
ReturnsSurvivors ==
    /\ [k \in 1..Len(cleaned.frame) |-> cleaned.frame[k].index]
           = SelectSeq([j \in 1..Len(df) |-> j - 1], LAMBDA label : Survives(label + 1))
    /\ \A k \in 1..Len(cleaned.frame) :
          LET j == cleaned.frame[k].index + 1
          IN /\ cleaned.frame[k].Date = NormalDate(j)
             /\ cleaned.frame[k].Amount = NormalAmount(j)
             /\ "Description" \in columns
                   => cleaned.frame[k].Description = NormalDescription(j)

\* C12 as stated: clean_dataframe returns exactly the records whose date and
\* amount both normalized, and removed_rows is the number of records dropped.
C12_RemovedRowsIsCount ==
    cleaned.status = "returned"
        => ReturnsSurvivors /\ cleaned.issues.removed_rows = <<Dropped>>

\* C12: clean_dataframe returns exactly the records whose date and amount both
\* normalized (empty descriptions and duplicates stay); the issues hold
\* removed_rows, equal to the number of records dropped, when at least one
\* record was dropped and hold no removed_rows entry when none was.
C12_DropsExactlyInvalid ==
    cleaned.status = "returned"
        => /\ ReturnsSurvivors
           /\ cleaned.issues.removed_rows = IF Dropped = 0 THEN None ELSE <<Dropped>>

C12_Witness ==
    /\ cleaned.status = "returned"
    /\ Len(df) = 2
    /\ cleaned.issues.removed_rows = <<1>>
    /\ Len(cleaned.frame) = 1
    /\ cleaned.frame[1].index = 1
    /\ cleaned.frame[1].Description = ""
    /\ cleaned.issues.empty_descriptions = <<1>>

\* C13: an index is in the duplicates report only together with the index of
\* another record that has the same normalized date, the same normalized
\* amount and the same lowercased normalized description.
C13_DuplicatesShareKey ==
    cleaned.status = "returned"
        => \A a \in Range(cleaned.issues.duplicates) :
              \E b \in Range(cleaned.issues.duplicates) :
                  b # a /\ SameTransaction(a + 1, b + 1)

\* C14: two records with equal normalized dates, equal normalized amounts and
\* normalized descriptions equal up to letter case are both in the duplicates
\* report.
C14_SameRecordsReported ==
    (cleaned.status = "returned" /\ columns = RequiredColumns)
        => \A i, j \in 1..Len(df) :
              (i # j /\ SameTransaction(i, j))
                  => {i - 1, j - 1} \subseteq Range(cleaned.issues.duplicates)

\* C15: on a frame that has the Date, Description and Amount columns
\* clean_dataframe returns whatever the cells hold; invalid_dates lists the
\* indices of the records whose date does not normalize and no other, and
\* invalid_amounts those whose amount does not normalize and no other.
C15_MalformedCaptured ==
    (cleaned.status # "" /\ columns = RequiredColumns)
        => /\ cleaned.status = "returned"
           /\ cleaned.issues.invalid_dates
                  = SelectSeq([j \in 1..Len(df) |-> j - 1],
                              LAMBDA label : NormalDate(label + 1) = None)
           /\ cleaned.issues.invalid_amounts
                  = SelectSeq([j \in 1..Len(df) |-> j - 1],
                              LAMBDA label : NormalAmount(label + 1) = None)

C15_Witness ==
    /\ cleaned.status = "returned"
    /\ columns = RequiredColumns
    /\ Len(df) = 2
    /\ df[1].Amount = <<"N/A">>
    /\ df[2].Date = <<"02/30/2024">>
    /\ cleaned.issues.invalid_amounts = <<0>>
    /\ cleaned.issues.invalid_dates = <<1>>

\* ---- a text written MM/DD/YYYY, and its components
IsMMDDYYYY(s) ==
    /\ Len(s) = 10
    /\ \A i \in {1, 2, 4, 5, 7, 8, 9, 10} : IsDigitAt(s, i)
    /\ CharAt(s, 3) = "/" /\ CharAt(s, 6) = "/"

WrittenMonth(s) == int(SubSeq(s, 1, 2))
WrittenDay(s) == int(SubSeq(s, 4, 5))
WrittenYear(s) == int(SubSeq(s, 7, 10))

\* C16: for a text MM/DD/YYYY whose month, day and year are no calendar date
\* clean_date returns None, and a date it returns for a text MM/DD/YYYY has
\* the month, day and year that are written.
C16_InvalidDateIsNone ==
    (normalized.fn = "clean_date" /\ text # None /\ IsMMDDYYYY(text[1]))
        => LET s == text[1]
           IN /\ ~ValidDate(WrittenYear(s), WrittenMonth(s), WrittenDay(s))
                    => normalized.date = None
              /\ normalized.date # None
                    => normalized.date = <<strftime(WrittenYear(s), WrittenMonth(s),
                                                    WrittenDay(s), strftime_pads_year)>>

\* the form YYYY-MM-DD
IsISO(s) ==
    /\ Len(s) = 10
    /\ \A i \in {1, 2, 3, 4, 6, 7, 9, 10} : IsDigitAt(s, i)
    /\ CharAt(s, 5) = "-" /\ CharAt(s, 8) = "-"

\* C17: when clean_date is handed an ISO string that clean_date returned, it
\* returns that string.
C17_FixedPoint ==
    (fed # None /\ normalized.fn = "clean_date" /\ IsISO(fed[1]))
        => normalized.date = fed

C17_Witness ==
    /\ fed = <<"1975-01-15">>
    /\ text = fed
    /\ normalized.fn = "clean_date"
    /\ normalized.date = fed

\* ---- an amount text: currency symbols and whitespace removed, then the
\* sign markers, then the part before and the part after the point
SignMarkers == {"-", "(", ")"}

Bare(s) == remove_chars(s, CurrencySymbols \cup Whitespace)

RECURSIVE TrimMarkers(_)
TrimMarkers(s) ==
    IF Len(s) > 0 /\ CharAt(s, 1) \in SignMarkers THEN TrimMarkers(SubSeq(s, 2, Len(s)))
    ELSE IF Len(s) > 0 /\ CharAt(s, Len(s)) \in SignMarkers
         THEN TrimMarkers(SubSeq(s, 1, Len(s) - 1))
         ELSE s

HasDigit(s) == \E i \in 1..Len(s) : IsDigitAt(s, i)

Points(s) == {i \in 1..Len(s) : CharAt(s, i) = "."}

\* digits and grouping commas, at most one point, sign markers at the ends only
IsNumeral(s) ==
    /\ HasDigit(s)
    /\ \A i \in 1..Len(s) : IsNumCharAt(s, i) \/ CharAt(s, i) = "."
    /\ Cardinality(Points(s)) <= 1

BeforePoint(s) ==
    IF Points(s) = {} THEN s ELSE SubSeq(s, 1, (CHOOSE i \in Points(s) : TRUE) - 1)

AfterPoint(s) ==
    IF Points(s) = {} THEN "" ELSE SubSeq(s, (CHOOSE i \in Points(s) : TRUE) + 1, Len(s))

\* the numeral with the commas removed, in thousandths (up to three decimals)
Thousandths(s) ==
    LET frac == AfterPoint(s)
    IN 1000 * int(remove_chars(BeforePoint(s), {","}))
           + (IF Len(frac) = 0 THEN 0
              ELSE IF Len(frac) = 1 THEN 100 * int(frac)
              ELSE IF Len(frac) = 2 THEN 10 * int(frac) ELSE int(frac))

WrittenNegative(s) ==
    CharAt(s, 1) = "-" \/ (CharAt(s, 1) = "(" /\ CharAt(s, Len(s)) = ")")

\* C18 as stated: the sign comes from a leading '-' or from enclosing
\* parentheses, the magnitude is the digits with the commas removed, and a
\* text with no digit gives None.
C18_SignAndAllDigits ==
    (normalized.fn = "clean_amount" /\ text # None)
        => LET s == Bare(text[1])
               numeral == TrimMarkers(s)
           IN /\ ~HasDigit(s) => normalized.amount = None
              /\ (IsNumeral(numeral) /\ Len(AfterPoint(numeral)) <= 3)
                    => /\ normalized.amount # None
                       /\ normalized.amount[1].neg = WrittenNegative(s)
                       /\ 10 * normalized.amount[1].hundredths = Thousandths(numeral)

\* ---- a description as the list of its whitespace-delimited words
RECURSIVE join(_)
join(words) ==
    IF Len(words) = 0 THEN ""
    ELSE IF Len(words) = 1 THEN words[1]
    ELSE words[1] \o " " \o join(Tail(words))

IsMarker(word) == \E k \in 1..Len(Markers) : lower(word) = Markers[k]

WithoutFirstMarker(words) ==
    IF Len(words) > 0 /\ IsMarker(words[1]) THEN Tail(words) ELSE words

WithoutLastMarker(words) ==
    IF Len(words) > 0 /\ IsMarker(words[Len(words)])
    THEN SubSeq(words, 1, Len(words) - 1) ELSE words

\* C19: clean_description returns the words of the text joined by single
\* spaces, without a first word and without a last word that is DEBIT,
\* CREDIT, DR or CR in any letter case; every other word stays whole.
C19_StandaloneMarkersOnly ==
    (normalized.fn = "clean_description" /\ text # None)
        => normalized.description
               = join(WithoutLastMarker(WithoutFirstMarker(split(text[1]))))

\* C20: get_suggestions returns at most three entries, none for 'Other', each
\* with a confidence above 0.2 and at most 1, in order of non-increasing
\* confidence; for the empty description it returns the empty list.
C20_SuggestionsBounded ==
    call.op = "get_suggestions"
        => /\ Len(call.suggestions) <= 3
           /\ \A i \in 1..Len(call.suggestions) :
                 /\ call.suggestions[i].category # "Other"
                 /\ 5 * call.suggestions[i].confidence[1] > call.suggestions[i].confidence[2]
                 /\ call.suggestions[i].confidence[1] <= call.suggestions[i].confidence[2]
           /\ \A i \in 1..(Len(call.suggestions) - 1) :
                 PctLeq(call.suggestions[i + 1].confidence, call.suggestions[i].confidence)
           /\ call.description = "" => call.suggestions = <<>>

C20_Witness ==
    /\ call.op = "get_suggestions"
    /\ Len(call.suggestions) = 3
    /\ ~PctEq(call.suggestions[1].confidence, call.suggestions[3].confidence)
    /\ HasKey(categories, "Other") /\ categories.val["Other"].keywords # <<>>

\* ---- the banks detect_bank knows, in its order, and their tokens
BankPriority ==
    <<"chase", "bank_of_america", "wells_fargo", "citibank", "hsbc_bermuda",
      "butterfield_bermuda">>

BankTokens ==
    [chase |-> {"chase", "jpmorgan"},
     bank_of_america |-> {"bank of america", "bofa"},
     wells_fargo |-> {"wells fargo"},
     citibank |-> {"citibank", "citi"},
     hsbc_bermuda |-> {"hsbc"},
     butterfield_bermuda |-> {"butterfield"}]

OccursIgnoringCase(token, t) ==
    \E i \in 1..(Len(t) - Len(token) + 1) : lower(SubSeq(t, i, i + Len(token) - 1)) = token

\* the places in the priority order of the banks a text names
Named(t) ==
    {i \in 1..Len(BankPriority) :
        \E token \in BankTokens[BankPriority[i]] : OccursIgnoringCase(token, t)}

\* C21: detect_bank returns the profile of the first bank, in the order
\* chase, bank_of_america, wells_fargo, citibank, hsbc_bermuda,
\* butterfield_bermuda, one of whose tokens occurs in the text ignoring case,
\* and 'generic' exactly when no token occurs
C21_FirstBankInPriority ==
    parsing.fn = "detect_bank" =>
        IF Named(page_text) = {} THEN parsing.bank_type = "generic"
        ELSE parsing.bank_type =
                 BankPriority[CHOOSE i \in Named(page_text) : \A j \in Named(page_text) : i <= j]

C21_Witness ==
    /\ parsing.fn = "detect_bank"
    /\ Named(page_text) = {1, 5}
    /\ parsing.bank_type = "chase"

\* C22: a document whose extracted text is empty makes process_pdf raise:
\* the call never reaches the bank detection, the line parsing or the table
\* extraction, collects no record and returns no record list
C22_EmptyTextRaises ==
    ~pdf_paths[1].text_ok =>
        /\ tasks[1].pc \in {"start", "read", "ended", "exited"}
        /\ tasks[1].pc \in {"ended", "exited"} => tasks[1].outcome = "raised"
        /\ tasks[1].transactions = <<>>
        /\ sink.seen \subseteq {"start"}
        /\ ret.status \in {"running", "raised"}

C22_Witness ==
    /\ ~pdf_paths[1].text_ok
    /\ pdf_paths[1].rows # <<>>
    /\ ret.status = "raised"

\* ---- the records the lines of a document parse to, in line order, and the
\* records its table rows parse to
LineRecords(doc) ==
    LET at == SelectSeq([j \in 1..Len(doc.lines) |-> j], LAMBDA j : doc.lines[j] = "txn")
    IN [k \in 1..Len(at) |-> [doc |-> doc.id, src |-> "line", pos |-> at[k]]]

TableRecords(doc) ==
    LET at == SelectSeq([j \in 1..Len(doc.rows) |-> j], LAMBDA j : doc.rows[j] = "row_txn")
    IN [k \in 1..Len(at) |-> [doc |-> doc.id, src |-> "table", pos |-> at[k]]]

\* C23: process_pdf runs the table extraction exactly when the lines gave no
\* record; when they gave one the result is the line records in line order
C23_TablesOnlyAsFallback ==
    /\ "table" \in sink.seen =>
           /\ tasks[1].i = Len(tasks[1].cleaned)
           /\ LineRecords(pdf_paths[1]) = <<>>
    /\ tasks[1].outcome = "returned" =>
           IF LineRecords(pdf_paths[1]) = <<>>
           THEN /\ "table" \in sink.seen
                /\ tasks[1].transactions = TableRecords(pdf_paths[1])
           ELSE /\ "table" \notin sink.seen
                /\ tasks[1].transactions = LineRecords(pdf_paths[1])

C23_Witness ==
    /\ ret.status = "returned"
    /\ ret.value = LineRecords(pdf_paths[1])
    /\ Len(ret.value) = 2
    /\ TableRecords(pdf_paths[1]) # <<>>

\* ---- the cells of a row that hold text
NonEmptyCells(row) == {j \in 1..Len(row) : row[j] # ""}

\* C24: a table none of whose rows has three non-empty cells gives no record
C24_SparseRowsGiveNothing ==
    (/\ parsing.fn = "extract_from_tables"
     /\ \A j \in 1..Len(grid) : Cardinality(NonEmptyCells(grid[j])) < 3)
        => parsing.transactions = <<>>

\* ---- the line between the matched date and the matched amount
DateMatch == search_line_date(page_text, 1)
AmountMatch == search_line_amount(page_text, 1)

Between ==
    SubSeq(page_text, DateMatch[1].end, AmountMatch[1].match.start - 1)

WithoutLeadingDigits(s) == SubSeq(s, run_of(s, 1, DigitChars) + 1, Len(s))

Suppressed(line, bank_type) ==
    /\ bank_type \in DOMAIN bank_patterns
    /\ \E token \in {"date", "description", "amount", "balance"} :
           OccursIgnoringCase(token, line)

\* the lines the parser must reject
MustReject ==
    \/ split(page_text) = <<>>
    \/ Suppressed(page_text, parsing.bank_type)
    \/ DateMatch = None
    \/ AmountMatch = None
    \/ AmountMatch[1].match.start < DateMatch[1].end

\* C25 as stated: a record's description has at least 3 characters and is the
\* whitespace-collapsed text between the end of the matched date and the
\* start of the matched amount; blank lines, lines with a suppression token,
\* lines with no date, with no amount, or whose amount starts before the date
\* ends give no record
C25_DescriptionIsTextBetween ==
    parsing.fn = "parse_transaction_line" =>
        /\ MustReject => parsing.transaction = None
        /\ parsing.transaction # None =>
               /\ Len(parsing.transaction[1].description) >= 3
               /\ parsing.transaction[1].description = join(split(Between))

\* C25 amended: the description is that text with its leading run of digits
\* removed
C25_DescriptionWithoutReference ==
    parsing.fn = "parse_transaction_line" =>
        /\ MustReject => parsing.transaction = None
        /\ parsing.transaction # None =>
               /\ Len(parsing.transaction[1].description) >= 3
               /\ parsing.transaction[1].description
                      = join(split(WithoutLeadingDigits(join(split(Between)))))

C25_Witness ==
    /\ parsing.fn = "parse_transaction_line"
    /\ parsing.transaction # None
    /\ parsing.transaction[1].description # join(split(Between))
    /\ parsing.transaction[1].description = "Coffee Shop"

\* ---- the category a keyword was registered under most recently
LastRegistered(k) ==
    registered[LastOf({j \in 1..Len(registered) : registered[j].keyword = k})].category

MatchingKeywords(description) == {registered[j].keyword : j \in Matching(description)}

\* C26: the lookup maps every keyword to the category it was registered
\* under most recently, and categorize_transaction of a description whose only
\* matching keyword is k returns that category
C26_LatestRegistrationWins ==
    /\ \A k \in DOMAIN keyword_to_category.val :
           keyword_to_category.val[k] = LastRegistered(k)
    /\ (/\ call.op = "categorize_transaction"
        /\ call.description # ""
        /\ Cardinality(MatchingKeywords(call.description)) = 1)
       => \A k \in MatchingKeywords(call.description) : call.result = LastRegistered(k)

C26_Witness ==
    /\ call.op = "categorize_transaction"
    /\ n_adds > 0
    /\ MatchingKeywords(call.description) = {"amazon"}
    /\ Cardinality({registered[j].category : j \in Matching(call.description)}) = 3
    /\ call.result = "Online"

\* C27: every key of the lookup maps to a registered category whose keyword
\* list holds it (ignoring case), and every keyword of every registered
\* category is (lowercased) a key of the lookup
C27_LookupAgreesWithRegistry ==
    /\ \A k \in DOMAIN keyword_to_category.val :
           LET c == keyword_to_category.val[k]
           IN /\ HasKey(categories, c)
              /\ \E j \in 1..Len(categories.val[c].keywords) :
                     lower(categories.val[c].keywords[j]) = k
    /\ \A c \in DOMAIN categories.val :
           \A j \in 1..Len(categories.val[c].keywords) :
               HasKey(keyword_to_category, lower(categories.val[c].keywords[j]))

\* C28: categorize_dataframe leaves every record that holds a category other
\* than '' and 'Other' with that category, and changes no date, description
\* or amount
C28_AssignedCategoryKept ==
    [][call'.op = "categorize_dataframe"
       => /\ Len(df') = Len(df)
          /\ \A j \in 1..Len(df) :
                 /\ df'[j].Date = df[j].Date
                 /\ df'[j].Description = df[j].Description
                 /\ df'[j].Amount = df[j].Amount
                 /\ (/\ "Category" \in columns
                     /\ df[j].Category # None
                     /\ df[j].Category \notin {<<"">>, <<"Other">>})
                    => df'[j].Category = df[j].Category]_vars

C28_Witness ==
    /\ call.op = "categorize_dataframe"
    /\ Len(df) = 2
    /\ df[1].Description = "Starbucks coffee" /\ df[1].Category = <<"Shopping">>
    /\ df[2].Description = "Starbucks coffee" /\ df[2].Category = <<"Food & Dining">>

\* C29: when no key of the lookup is a substring of the description, no
\* whitespace token of the description is a key, so categorize_transaction
\* returns what the substring scan and the amount rules give
C29_TokenStepNeverDecides ==
    (call.op = "categorize_transaction" /\ call.description # "")
    => LET desc_lower == lower(call.description)
           k == first_match(keyword_to_category, desc_lower)
       IN /\ k = 0 => first_word(keyword_to_category, split(desc_lower)) = 0
          /\ call.result = IF k # 0
                           THEN keyword_to_category.val[keyword_to_category.keys[k]]
                           ELSE by_amount(call.amount)

C29_Witness ==
    /\ call.op = "categorize_transaction"
    /\ Len(split(lower(call.description))) = 2
    /\ first_match(keyword_to_category, lower(call.description)) = 0
    /\ n_adds > 0

\* C30: clean_dataframe leaves the caller's frame as it was: the same records
\* in the same order with their raw date, amount and description and no
\* other field, whatever was reported and whatever was dropped
C30_InputFrameUnchanged ==
    [][cleaned'.status # cleaned.status
       => /\ Len(df') = Len(df)
          /\ \A j \in 1..Len(df) :
                 /\ DOMAIN df'[j] = {"Date", "Description", "Amount"}
                 /\ df'[j].Date = df[j].Date
                 /\ df'[j].Description = df[j].Description
                 /\ df'[j].Amount = df[j].Amount]_vars

C30_Witness ==
    /\ cleaned.status = "returned"
    /\ cleaned.issues.removed_rows = <<1>>
    /\ cleaned.issues.invalid_dates = <<0>>
    /\ Len(cleaned.frame) = 1
    /\ Len(df) = 2
    /\ \A j \in 1..Len(df) : df[j] \in RawRows

====
